---- MODULE Spec2Model ----
(***************************************************************************)
(* Gilead Couriers serverless handlers: Stripe webhook receivers, checkout *)
(* session creators (the pricing formula family) and the availability /    *)
(* distance proxies.  Every handler is stateless: one request is taken    *)
(* from the idle state, the handler runs to completion and leaves its      *)
(* response, the ordered list of outbound calls it made and the values it  *)
(* computed on the way.  Requests are taken with the HTTP method the       *)
(* handler serves, so the 405 branches are outside the model.              *)
(***************************************************************************)
EXTENDS Integers, Sequences, FiniteSets, TLC

VARIABLES
    handler,   \* which handler served the request ("none" while idle)
    env,       \* process.env as the handler reads it
    req,       \* the request
    up,        \* what the upstream services answered to the calls made
    res,       \* the response: status and body
    trace,     \* outbound calls, in the order they were made
    audit      \* values computed on the way (metadata, flags)

vars == <<handler, env, req, up, res, trace, audit>>

Idle == [none |-> TRUE]

\* ------------------------------------------------------------------------
\* Stripe webhook receivers
\* ------------------------------------------------------------------------

\* Signing secrets: each environment variable is unset or holds its own key.
Unset == "unset"
KeyLive == "whsec_live"
KeyTest == "whsec_test"
KeyGeneric == "whsec_generic"
KeyForeign == "whsec_foreign"   \* a key no environment variable holds

EventTypes ==
    { "checkout.session.completed", "payment_intent.succeeded",
      "payment_intent.payment_failed", "charge.refunded", "customer.created" }

WebhookEnvs ==
    [ STRIPE_WEBHOOK_SECRET_LIVE : {Unset, KeyLive},
      STRIPE_WEBHOOK_SECRET_TEST : {Unset, KeyTest},
      STRIPE_WEBHOOK_SECRET      : {Unset, KeyGeneric},
      telegram                   : BOOLEAN,    \* bot token and chat id both set
      MAKE_CREATE_JOB_WEBHOOK_URL : BOOLEAN ]

\* A webhook POST: the stripe-signature header (the key it was made with, or
\* "none"), whether the signed bytes are the body received (intact), and the
\* body: a Stripe event (JSON) or bytes that are not JSON.
EventRequests ==
    [ sig : {"none", KeyLive, KeyTest, KeyGeneric, KeyForeign},
      intact : BOOLEAN,
      body : {"event"},
      type : EventTypes,
      metadata : {"booking", "empty"},     \* session.metadata
      payment_intent : BOOLEAN ]           \* session.payment_intent present

GarbageRequests ==
    [ sig : {"none", KeyLive, KeyForeign},
      intact : BOOLEAN,
      body : {"garbage"},
      type : {"n/a"},
      metadata : {"empty"},
      payment_intent : {FALSE} ]

WebhookRequests == EventRequests \cup GarbageRequests

\* Outcomes of the outbound calls a webhook handler can make.
WebhookUpstreams ==
    [ telegram : {"ok", "reject"},
      make     : {"ok", "reject"},
      retrieve : {"booking", "empty", "reject"} ]  \* PaymentIntent metadata, or failure

\* stripe.webhooks.constructEvent(body, sig, secret): succeeds exactly when the
\* header is present, the secret is set, the signature was made with that
\* secret over the bytes received, and the bytes parse as JSON.
constructEvent(r, secret) ==
    /\ r.sig # "none"
    /\ secret # Unset
    /\ r.sig = secret
    /\ r.intact
    /\ r.body = "event"

Response(status, body) == [status |-> status, body |-> body]

Received == Response(200, "received:true")

\* sendTelegramMessage without a try/catch (route.ts first variant, part_007):
\* the fetch is awaited bare, so a rejection propagates to the caller.
sendTelegramMessage_bare(e, u) ==
    IF ~e.telegram THEN [calls |-> <<>>, threw |-> FALSE]
    ELSE [calls |-> <<"telegram">>, threw |-> (u.telegram = "reject")]

\* sendTelegramMessage with the fetch inside try/catch (route.ts second variant).
sendTelegramMessage(e, u) ==
    IF ~e.telegram THEN [calls |-> <<>>, threw |-> FALSE]
    ELSE [calls |-> <<"telegram">>, threw |-> FALSE]

notifyTelegram_retry(e, u) ==
    IF ~e.telegram THEN [calls |-> <<>>, threw |-> FALSE]
    ELSE IF u.telegram = "reject" THEN [calls |-> <<"telegram", "telegram">>, threw |-> FALSE]
    ELSE [calls |-> <<"telegram">>, threw |-> FALSE]

\* notifyTelegram: fetch and resp.text() inside try/catch; never throws.
notifyTelegram(e, u) ==
    IF ~e.telegram THEN [calls |-> <<>>, threw |-> FALSE]
    ELSE [calls |-> <<"telegram">>, threw |-> FALSE]

\* notifyMake (part_005): the URL is a constant of the file, the fetch is
\* inside try/catch.
notifyMake(e, u) == [calls |-> <<"make">>, threw |-> FALSE]

\* postToMakeCreateJob (webhook.js): skipped without the URL; never throws.
postToMakeCreateJob(e, u) ==
    IF ~e.MAKE_CREATE_JOB_WEBHOOK_URL THEN [calls |-> <<>>, threw |-> FALSE]
    ELSE [calls |-> <<"make">>, threw |-> FALSE]

\* A lookup that asks the PaymentIntent whenever the session has one.
sessionMetadata_always(r, u) ==
    IF r.payment_intent
    THEN [calls |-> <<"stripe.paymentIntents.retrieve">>,
          md |-> IF u.retrieve = "reject" THEN "empty" ELSE u.retrieve,
          from |-> IF u.retrieve = "reject" THEN "none" ELSE "payment_intent"]
    ELSE [calls |-> <<>>, md |-> r.metadata, from |-> "session"]

\* "Prefer session metadata; if missing, pull from PaymentIntent": which
\* metadata the handler ends up with and whether it called Stripe for it.
sessionMetadata(r, u) ==
    IF r.metadata = "empty" /\ r.payment_intent
    THEN [calls |-> <<"stripe.paymentIntents.retrieve">>,
          md |-> IF u.retrieve = "reject" THEN "empty" ELSE u.retrieve,
          from |-> IF u.retrieve = "reject" THEN "none" ELSE "payment_intent"]
    ELSE [calls |-> <<>>, md |-> r.metadata, from |-> "session"]

\* What a run leaves behind.
Outcome(response, calls, accepted, verified, md) ==
    [res |-> response, trace |-> calls,
     audit |-> [accepted |-> accepted, verified |-> verified, md |-> md]]

Rejected(status, body) == Outcome(Response(status, body), <<>>, FALSE, FALSE, "n/a")

\* The upstream answers a run consumed: those of the calls it made.
Consumed(u, calls) ==
    LET made == {calls[i] : i \in DOMAIN calls}
    IN [ telegram |-> IF "telegram" \in made THEN u.telegram ELSE "n/a",
         make     |-> IF "make" \in made THEN u.make ELSE "n/a",
         retrieve |-> IF "stripe.paymentIntents.retrieve" \in made
                      THEN u.retrieve ELSE "n/a" ]

\* The try block shared by the handlers: run the notifications, answer 200,
\* or 500 when one of them threw.
Notify(steps, verified, md) ==
    LET calls == steps.calls
    IN IF steps.threw
       THEN Outcome(Response(500, "handler error"), calls, TRUE, verified, md)
       ELSE Outcome(Received, calls, TRUE, verified, md)

NoCall == [calls |-> <<>>, threw |-> FALSE]

\* The two steps started in the opposite order.
Then_swapped(a, b) ==
    IF b.threw THEN b ELSE [calls |-> b.calls \o a.calls, threw |-> a.threw]

Then(a, b) ==
    IF a.threw THEN a ELSE [calls |-> a.calls \o b.calls, threw |-> b.threw]

\* src/app/api/stripe/webhook/route.ts, first POST: the signature header is
\* read and its absence logged, but nothing is verified; the body is parsed.
POST_route_v1(e, r, u) ==
    IF r.body # "event" THEN Rejected(400, "Invalid JSON")
    ELSE IF r.type = "checkout.session.completed"
         THEN Notify(sendTelegramMessage_bare(e, u), FALSE, r.metadata)
         ELSE Notify(NoCall, FALSE, "n/a")

\* route.ts, second POST: one secret, STRIPE_WEBHOOK_SECRET.
POST_route_v2(e, r, u) ==
    IF r.sig = "none" THEN Rejected(400, "Missing stripe-signature")
    ELSE IF e.STRIPE_WEBHOOK_SECRET = Unset THEN Rejected(500, "Server misconfigured")
    ELSE IF ~constructEvent(r, e.STRIPE_WEBHOOK_SECRET) THEN Rejected(400, "Webhook Error")
    ELSE IF r.type = "checkout.session.completed"
         THEN Notify(sendTelegramMessage(e, u), TRUE, r.metadata)
         ELSE Notify(NoCall, TRUE, "n/a")

\* part_006: "Minimal 200 to stop Stripe retries for now".
handler_part006(e, r, u) == Outcome(Received, <<>>, TRUE, FALSE, "n/a")

\* part_007 POST: both LIVE and TEST secrets are required; LIVE is tried
\* first, then TEST.
POST_part007(e, r, u) ==
    IF r.sig = "none" THEN Rejected(400, "Missing stripe-signature")
    ELSE IF e.STRIPE_WEBHOOK_SECRET_LIVE = Unset \/ e.STRIPE_WEBHOOK_SECRET_TEST = Unset
         THEN Rejected(500, "Server misconfigured")
    ELSE IF ~ ( constructEvent(r, e.STRIPE_WEBHOOK_SECRET_LIVE)
                \/ constructEvent(r, e.STRIPE_WEBHOOK_SECRET_TEST) )
         THEN Rejected(400, "Webhook verification failed")
    ELSE IF r.type = "checkout.session.completed"
         THEN Notify(sendTelegramMessage_bare(e, u), TRUE, r.metadata)
         ELSE Notify(NoCall, TRUE, "n/a")

\* The dual-secret verification of part_005 (both variants): LIVE if set,
\* then STRIPE_WEBHOOK_SECRET as the TEST secret.  "misconfigured", "failed"
\* or "ok".
verifyDual(e, r) ==
    LET liveSecret == e.STRIPE_WEBHOOK_SECRET_LIVE
        testSecret == e.STRIPE_WEBHOOK_SECRET
        byLive == liveSecret # Unset /\ constructEvent(r, liveSecret)
        byTest == ~byLive /\ testSecret # Unset /\ constructEvent(r, testSecret)
    IN IF liveSecret = Unset /\ testSecret = Unset THEN "misconfigured"
       ELSE IF byLive \/ byTest THEN "ok"
       ELSE "failed"

\* A switch whose default case sends a Telegram message as well.
dispatchFour_notifyAll(e, r, u, afterTelegram) ==
    LET sm == sessionMetadata(r, u)
    IN IF r.type = "checkout.session.completed"
       THEN Notify(Then([calls |-> sm.calls, threw |-> FALSE],
                        Then(notifyTelegram(e, u), afterTelegram)),
                   TRUE, sm.md)
       ELSE Notify(notifyTelegram(e, u), TRUE, "n/a")

\* The four event cases of part_005 (first variant) and webhook.js: each sends
\* one Telegram message; checkout.session.completed first settles its metadata.
dispatchFour(e, r, u, afterTelegram) ==
    LET sm == sessionMetadata(r, u)
    IN IF r.type = "checkout.session.completed"
       THEN Notify(Then([calls |-> sm.calls, threw |-> FALSE],
                        Then(notifyTelegram(e, u), afterTelegram)),
                   TRUE, sm.md)
       ELSE IF r.type \in { "payment_intent.succeeded", "payment_intent.payment_failed",
                            "charge.refunded" }
       THEN Notify(notifyTelegram(e, u), TRUE, "n/a")
       ELSE Notify(NoCall, TRUE, "n/a")

\* part_005, first handler.
handler_part005_v1(e, r, u) ==
    LET v == verifyDual(e, r)
    IN IF v = "misconfigured" THEN Rejected(500, "Server misconfigured")
       ELSE IF v = "failed" THEN Rejected(400, "Webhook Error")
       ELSE dispatchFour(e, r, u, NoCall)

\* part_005, second handler: checkout.session.completed notifies Telegram,
\* then Make; every other event type is only logged.
handler_part005_v2(e, r, u) ==
    LET v == verifyDual(e, r)
        sm == sessionMetadata(r, u)
    IN IF v = "misconfigured" THEN Rejected(500, "Server misconfigured")
       ELSE IF v = "failed" THEN Rejected(400, "Webhook Error")
       ELSE IF r.type = "checkout.session.completed"
       THEN Notify(Then([calls |-> sm.calls, threw |-> FALSE],
                        Then(notifyTelegram(e, u), notifyMake(e, u))),
                   TRUE, sm.md)
       ELSE Notify(NoCall, TRUE, "n/a")

\* webhook.js, first handler: the single STRIPE_WEBHOOK_SECRET; an unset
\* secret makes constructEvent throw, which is answered 400 like any failure.
handler_webhook_v1(e, r, u) ==
    IF ~constructEvent(r, e.STRIPE_WEBHOOK_SECRET) THEN Rejected(400, "Webhook Error")
    ELSE dispatchFour(e, r, u, NoCall)

\* webhook.js, second handler: LIVE, then TEST, then STRIPE_WEBHOOK_SECRET.
handler_webhook_v2(e, r, u) ==
    LET byLive == e.STRIPE_WEBHOOK_SECRET_LIVE # Unset
                  /\ constructEvent(r, e.STRIPE_WEBHOOK_SECRET_LIVE)
        byTest == ~byLive /\ e.STRIPE_WEBHOOK_SECRET_TEST # Unset
                  /\ constructEvent(r, e.STRIPE_WEBHOOK_SECRET_TEST)
        byGeneric == ~byLive /\ ~byTest /\ e.STRIPE_WEBHOOK_SECRET # Unset
                     /\ constructEvent(r, e.STRIPE_WEBHOOK_SECRET)
    IN IF ~(byLive \/ byTest \/ byGeneric) THEN Rejected(400, "Webhook Error")
       ELSE dispatchFour(e, r, u, postToMakeCreateJob(e, u))

WebhookHandlers ==
    { "POST_route_v1", "POST_route_v2", "handler_part006", "POST_part007",
      "handler_part005_v1", "handler_part005_v2", "handler_webhook_v1",
      "handler_webhook_v2" }

\* One request served by handler h whose run is `o`, u being the upstream
\* answers the run consumed; a handler takes a request
\* from the idle state only (each request is served on its own).
Serve(h, e, r, u, o) ==
    /\ handler' = h
    /\ env' = e
    /\ req' = r
    /\ res' = o.res
    /\ trace' = o.trace
    /\ audit' = o.audit
    /\ up' = u

Webhook_route_v1 ==
    /\ handler = "none"
    /\ \E e \in WebhookEnvs, r \in WebhookRequests, u \in WebhookUpstreams :
        Serve("POST_route_v1", e, r, Consumed(u, POST_route_v1(e, r, u).trace), POST_route_v1(e, r, u))

Webhook_route_v2 ==
    /\ handler = "none"
    /\ \E e \in WebhookEnvs, r \in WebhookRequests, u \in WebhookUpstreams :
        Serve("POST_route_v2", e, r, Consumed(u, POST_route_v2(e, r, u).trace), POST_route_v2(e, r, u))

Webhook_part006 ==
    /\ handler = "none"
    /\ \E e \in WebhookEnvs, r \in WebhookRequests, u \in WebhookUpstreams :
        Serve("handler_part006", e, r, Consumed(u, handler_part006(e, r, u).trace), handler_part006(e, r, u))

Webhook_part007 ==
    /\ handler = "none"
    /\ \E e \in WebhookEnvs, r \in WebhookRequests, u \in WebhookUpstreams :
        Serve("POST_part007", e, r, Consumed(u, POST_part007(e, r, u).trace), POST_part007(e, r, u))

Webhook_part005_v1 ==
    /\ handler = "none"
    /\ \E e \in WebhookEnvs, r \in WebhookRequests, u \in WebhookUpstreams :
        Serve("handler_part005_v1", e, r, Consumed(u, handler_part005_v1(e, r, u).trace), handler_part005_v1(e, r, u))

Webhook_part005_v2 ==
    /\ handler = "none"
    /\ \E e \in WebhookEnvs, r \in WebhookRequests, u \in WebhookUpstreams :
        Serve("handler_part005_v2", e, r, Consumed(u, handler_part005_v2(e, r, u).trace), handler_part005_v2(e, r, u))

Webhook_webhook_v1 ==
    /\ handler = "none"
    /\ \E e \in WebhookEnvs, r \in WebhookRequests, u \in WebhookUpstreams :
        Serve("handler_webhook_v1", e, r, Consumed(u, handler_webhook_v1(e, r, u).trace), handler_webhook_v1(e, r, u))

Webhook_webhook_v2 ==
    /\ handler = "none"
    /\ \E e \in WebhookEnvs, r \in WebhookRequests, u \in WebhookUpstreams :
        Serve("handler_webhook_v2", e, r, Consumed(u, handler_webhook_v2(e, r, u).trace), handler_webhook_v2(e, r, u))

\* ------------------------------------------------------------------------
\* Checkout session creators: the pricing formula family
\* ------------------------------------------------------------------------
\* Distances are in tenths of a mile, money before rounding in thousandths
\* of a pound (a tenth of a mile at one penny per mile), prices in pounds.

MaxMiles == 300      \* longest one-way distance requested, in miles
MileGrid == 200      \* spacing of the regular distances, in tenths of a mile
MaxDay == 4          \* job dates: 1970-01-01 (a Thursday) .. that many days on

\* Distances around every band edge and manual-quote ceiling of the profiles.
EdgeMiles ==
    { 5, 200, 205, 795, 800, 1100, 1190, 1195, 1200, 1695, 1700, 1790, 1795,
      1800, 1900, 2000, 2100, 2105, 2110, 2195, 2200, 2395, 2400, 2595, 2600 }

MilesDm == {dm \in 1..(MaxMiles * 10) : dm % MileGrid = 0 \/ dm \in EdgeMiles}

\* The miles field as sent: a positive number, the number 0, a negative
\* number, text ("abc"), or text with a numeric prefix ("12abc").
MilesInputs ==
    [kind : {"number"}, dm : MilesDm]
    \cup { [kind |-> "zero", dm |-> 0], [kind |-> "negative", dm |-> -50],
           [kind |-> "text", dm |-> 0], [kind |-> "prefixed", dm |-> 120] }

Truthy(m) == m.kind # "zero"

NaN == [finite |-> FALSE, dm |-> 0]

\* Number(miles)
Number(m) ==
    IF m.kind \in {"text", "prefixed"} THEN NaN ELSE [finite |-> TRUE, dm |-> m.dm]

\* parseFloat(miles): reads a numeric prefix.
parseFloat(m) ==
    IF m.kind = "text" THEN NaN ELSE [finite |-> TRUE, dm |-> m.dm]

\* whenDate/whenTime as sent: a date (its day number) and a whole hour that
\* parse, or a pair that does not.
JobHours == {9, 16, 17, 23}
Whens ==
    [valid : {TRUE}, day : 0..MaxDay, hour : JobHours]
    \cup { [valid |-> FALSE, day |-> 0, hour |-> 0] }

\* The handler's clock, in minutes since 1970-01-01T00:00Z: Friday the 2nd at
\* 14:00, 14:01, 17:00 and 17:01.
Nows == {1440 + 840, 1440 + 841, 1440 + 1020, 1440 + 1021}

Industries ==
    { "Aerospace", "Defence", "Engineering", "Government / Public Sector",
      "Legal", "Medical", "Financial Services", "Other", "Retail" }

ServiceTypes == {"oneway", "return_same_day"}

\* new Date(`${dateStr}T${timeStr}:00.000Z`).getTime(), in minutes
getTimeMinutes(w) == w.day * 1440 + w.hour * 60

\* getUTCDay(): 0 = Sunday .. 6 = Saturday; 1970-01-01 was a Thursday.
getUTCDay(w) == (w.day + 4) % 7

Max(a, b) == IF a >= b THEN a ELSE b

roundToNearest_pound(amount, nearest) == (amount + 500) \div 1000

\* Math.round(amount / nearest) * nearest, amount in thousandths of a pound,
\* the result in pounds; Math.round rounds a half up.
roundToNearest(amount, nearest) ==
    ((2 * amount + 1000 * nearest) \div (2000 * nearest)) * nearest

manualQuote_above(effDm, ceilingMiles) == effDm > ceilingMiles * 10

\* The manual-quote test: effective miles at or beyond the ceiling.
manualQuote(effDm, ceilingMiles) == effDm >= ceilingMiles * 10

over20_from19(effDm) == Max(0, effDm - 190)

\* Math.max(0, miles - 20), in tenths of a mile
over20(effDm) == Max(0, effDm - 200)

isUrgent_past(diffMinutes, urgencyMinutes) == diffMinutes < urgencyMinutes

\* Urgent: the job starts within urgencyMinutes from now, and not in the past.
isUrgent(diffMinutes, urgencyMinutes) ==
    diffMinutes >= 0 /\ diffMinutes < urgencyMinutes

\* What a checkout run leaves behind.
Unpriced(status, body, calls) ==
    [res |-> Response(status, body), trace |-> calls,
     audit |-> [priced |-> FALSE, sessionCreated |-> FALSE]]

\* The variants whose metadata and 200 body carry calculatedPrice; the flat
\* handler and the Google-Routes handler answer { url } only and record no
\* price in the metadata.
CarriesPrice ==
    { "PR-V1.0", "PR-V1.1", "PR-PREMIUM-V1.0", "PR-PROFILES-V2.0", "PR-PROFILES-V3.0" }

Absent == [present |-> FALSE, pounds |-> 0]

\* What the session and the 200 body hold of the price: the line item's
\* unit_amount (pence), metadata.calculatedPrice and the body's
\* calculatedPrice (pounds).
SessionFields(q, unitAmount) ==
    [ unit_amount |-> unitAmount,
      metadata_calculatedPrice |->
          IF q.pricingRuleVersion \in CarriesPrice
          THEN [present |-> TRUE, pounds |-> q.calculatedPrice] ELSE Absent,
      response_calculatedPrice |->
          IF q.pricingRuleVersion \in CarriesPrice
          THEN [present |-> TRUE, pounds |-> q.calculatedPrice] ELSE Absent ]

\* A session whose unit_amount is the price in pounds.
CreateSession_pounds(q, u, errorBody) ==
    IF u.stripe = "throw"
    THEN [res |-> Response(500, errorBody),
          trace |-> <<"stripe.checkout.sessions.create">>,
          audit |-> [q EXCEPT !.sessionCreated = FALSE]]
    ELSE [res |-> Response(200, "session"),
          trace |-> <<"stripe.checkout.sessions.create">>,
          audit |-> SessionFields(q, q.calculatedPrice)
                    @@ [q EXCEPT !.sessionCreated = TRUE]]

\* stripe.checkout.sessions.create with the price computed (q, the values the
\* handler computed), then the 200; a throw is caught and answered 500.
CreateSession(q, u, errorBody) ==
    IF u.stripe = "throw"
    THEN [res |-> Response(500, errorBody),
          trace |-> <<"stripe.checkout.sessions.create">>,
          audit |-> [q EXCEPT !.sessionCreated = FALSE]]
    ELSE [res |-> Response(200, "session"),
          trace |-> <<"stripe.checkout.sessions.create">>,
          audit |-> SessionFields(q, q.amountPence)
                    @@ [q EXCEPT !.sessionCreated = TRUE]]

\* The values a pricing run computes; fields a variant does not have are 0.
Quote(version, effDm, base, distance, upliftDistance, urgency, after17, weekend, immediate, total, rounding, calculated) ==
    [ priced |-> TRUE, sessionCreated |-> FALSE,
      pricingRuleVersion |-> version,
      effectiveMiles |-> effDm,
      pricing_base |-> base,
      pricing_distance |-> distance,
      pricing_uplift_distance |-> upliftDistance,
      pricing_urgency |-> urgency,
      pricing_after1700 |-> after17,
      pricing_weekend |-> weekend,
      pricing_immediate |-> immediate,
      pricing_total_before_rounding |-> total,
      pricing_rounding_to |-> rounding,
      calculatedPrice |-> calculated,
      amountPence |-> calculated * 100 ]

RequiredV2 ==
    {"company", "industry", "pickup", "dropoff", "miles", "email", "whenDate", "whenTime"}

\* part_000: the flat fee, 90 pounds whatever the distance.
handler_flat(e, r, u) ==
    IF r.missing \cap {"pickup", "dropoff", "email"} # {}
    THEN Unpriced(400, "Missing required fields", <<>>)
    ELSE CreateSession(Quote("flat", 0, 90, 0, 0, 0, 0, 0, 0, 90000, 0, 90),
                       u, "Internal server error")

\* PR-V1.0 constants (part_004)
BASE_DISTANCE == 20
BASE_PRICE == 90
PER_MILE_RATE == 180     \* pence per mile beyond 20

\* roundPrice (part_004): nearest 5 below 100 pounds, nearest 10 from there.
roundPrice(value) ==
    IF value < 100000 THEN roundToNearest(value, 5) ELSE roundToNearest(value, 10)

\* PR-V1.0 (part_004, last handler): whenDate and whenTime must be present but
\* are never parsed; miles goes through parseFloat.
handler_v10(e, r, u) ==
    IF r.missing \cap {"pickup", "dropoff", "email", "whenDate", "whenTime"} # {}
    THEN Unpriced(400, "Missing required fields", <<>>)
    ELSE LET milesNum == IF "miles" \notin r.missing /\ Truthy(r.miles)
                         THEN parseFloat(r.miles) ELSE NaN
         IN IF ~milesNum.finite \/ milesNum.dm <= 0
            THEN Unpriced(400, "Invalid miles", <<>>)
            ELSE LET rawPrice ==
                         IF milesNum.dm > BASE_DISTANCE * 10
                         THEN BASE_PRICE * 1000
                              + (milesNum.dm - BASE_DISTANCE * 10) * PER_MILE_RATE
                         ELSE BASE_PRICE * 1000
                     finalPrice == Max(roundPrice(rawPrice), BASE_PRICE)
                 IN CreateSession(
                        Quote("PR-V1.0", milesNum.dm, BASE_PRICE,
                              rawPrice - BASE_PRICE * 1000, 0, 0, 0, 0, 0,
                              rawPrice, 5, finalPrice),
                        u, "Internal server error")

\* PR-V1.1 (src/api/create-checkout-session-v2.js): the base is rounded to 5
\* and floored at 90, the uplifts are added after the rounding.  Urgent is
\* "job day minus today <= 1", in whole UTC days.
handler_v11(e, r, u) ==
    IF r.missing \cap RequiredV2 # {} \/ ~Truthy(r.miles)
    THEN Unpriced(400, "Missing required fields", <<>>)
    ELSE LET milesNum == Number(r.miles)
         IN IF ~milesNum.finite \/ milesNum.dm <= 0
            THEN Unpriced(400, "Invalid miles", <<>>)
            ELSE IF ~r.when.valid
            THEN Unpriced(400, "Invalid whenDate/whenTime", <<>>)
            ELSE LET baseWithin20 == 90
                     perMileOver20 == 180
                     raw == IF milesNum.dm <= 200
                            THEN baseWithin20 * 1000
                            ELSE baseWithin20 * 1000 + (milesNum.dm - 200) * perMileOver20
                     baseCalculated == Max(roundToNearest(raw, 5), baseWithin20)
                     isAfter1700 == r.when.hour >= 17
                     weekendDay == getUTCDay(r.when) \in {0, 6}
                     diffDays == r.when.day - (e.now \div 1440)
                     urgentDay == diffDays <= 1
                     after17 == IF isAfter1700 THEN 15 ELSE 0
                     weekend == IF weekendDay THEN 20 ELSE 0
                     urgent == IF urgentDay THEN 25 ELSE 0
                     calculated == baseCalculated + after17 + weekend + urgent
                 IN CreateSession(
                        Quote("PR-V1.1", milesNum.dm, baseWithin20,
                              raw - baseWithin20 * 1000, 0, urgent, after17, weekend,
                              0, raw, 5, calculated),
                        u, "Server error")

\* PR-PREMIUM-V1.0 constants (src/api/stripe/create-checkout-session-v2.js)
BASE_WITHIN_20 == 120
PER_MILE_OVER_20 == 350      \* pence per mile beyond 20
MANUAL_QUOTE_MILES == 180
DIST_UPLIFT_80_119 == 50
DIST_UPLIFT_120_179 == 90
URGENCY_MINUTES == 180
UPLIFT_URGENCY == 40
UPLIFT_AFTER_1700 == 35
UPLIFT_WEEKEND == 60
ROUND_NEAREST == 5

\* PR-PREMIUM-V1.0
handler_premium(e, r, u) ==
    IF r.missing \cap RequiredV2 # {} \/ ~Truthy(r.miles)
    THEN Unpriced(400, "Missing required fields", <<>>)
    ELSE LET milesNum == Number(r.miles)
         IN IF ~milesNum.finite \/ milesNum.dm <= 0
            THEN Unpriced(400, "Invalid miles", <<>>)
            ELSE IF manualQuote(milesNum.dm, MANUAL_QUOTE_MILES)
            THEN Unpriced(400, "Manual quote required", <<>>)
            ELSE IF ~r.when.valid
            THEN Unpriced(400, "Invalid whenDate/whenTime", <<>>)
            ELSE LET isAfter1700 == r.when.hour >= 17
                     weekendDay == getUTCDay(r.when) \in {0, 6}
                     diffMinutes == getTimeMinutes(r.when) - e.now
                     urgent == isUrgent(diffMinutes, URGENCY_MINUTES)
                     pricingDistance == over20(milesNum.dm) * PER_MILE_OVER_20
                     pricingDistanceUplift ==
                         IF milesNum.dm >= 800 /\ milesNum.dm <= 1190
                         THEN DIST_UPLIFT_80_119
                         ELSE IF milesNum.dm >= 1200 /\ milesNum.dm <= 1790
                         THEN DIST_UPLIFT_120_179
                         ELSE 0
                     pricingUrgency == IF urgent THEN UPLIFT_URGENCY ELSE 0
                     pricingAfter1700 == IF isAfter1700 THEN UPLIFT_AFTER_1700 ELSE 0
                     pricingWeekend == IF weekendDay THEN UPLIFT_WEEKEND ELSE 0
                     totalBeforeRounding ==
                         BASE_WITHIN_20 * 1000 + pricingDistance
                         + 1000 * (pricingDistanceUplift + pricingUrgency
                                   + pricingAfter1700 + pricingWeekend)
                     calculated == roundToNearest(totalBeforeRounding, ROUND_NEAREST)
                 IN CreateSession(
                        Quote("PR-PREMIUM-V1.0", milesNum.dm, BASE_WITHIN_20,
                              pricingDistance, pricingDistanceUplift, pricingUrgency,
                              pricingAfter1700, pricingWeekend, 0,
                              totalBeforeRounding, ROUND_NEAREST, calculated),
                        u, "Server error")

\* The industry tables: amounts in pounds, perMileOver20 in pence per mile,
\* band edges and manualQuoteMiles in miles.
Null == [null |-> TRUE]

BASE_PRICING_V2 ==
    [ baseUpTo20 |-> 120, perMileOver20 |-> 350,
      uplift |-> <<[min |-> 80, max |-> 119, add |-> 50], [min |-> 120, max |-> 179, add |-> 90]>>,
      manualQuoteMiles |-> 180, urgencyMinutes |-> 180, urgencyAdd |-> 40,
      after17Add |-> 35, weekendAdd |-> 60, bankHolidayAdd |-> 90,
      rounding |-> 5 ]

INDUSTRY_PRICING_V2 ==
    "Aerospace" :>
      [
        oneway |->
          [ baseUpTo20 |-> 120, perMileOver20 |-> 225,
            uplift |-> <<[min |-> 120, max |-> 210, add |-> 20]>>,
            manualQuoteMiles |-> 260, urgencyMinutes |-> 180, urgencyAdd |-> 25,
            after17Add |-> 25, weekendAdd |-> 50, bankHolidayAdd |-> 80,
            rounding |-> 10 ],
        return_same_day |->
          [ baseUpTo20 |-> 120, perMileOver20 |-> 130,
            uplift |-> <<[min |-> 340, max |-> 520, add |-> 60]>>,
            manualQuoteMiles |-> 520, urgencyMinutes |-> 180, urgencyAdd |-> 25,
            after17Add |-> 25, weekendAdd |-> 50, bankHolidayAdd |-> 80,
            rounding |-> 10 ] ]
    @@
    "Defence" :>
      [
        oneway |->
          [ baseUpTo20 |-> 120, perMileOver20 |-> 235,
            uplift |-> <<[min |-> 80, max |-> 119, add |-> 40], [min |-> 120, max |-> 179, add |-> 70]>>,
            manualQuoteMiles |-> 240, urgencyMinutes |-> 180, urgencyAdd |-> 30,
            after17Add |-> 30, weekendAdd |-> 55, bankHolidayAdd |-> 85,
            rounding |-> 10 ],
        return_same_day |->
          [ baseUpTo20 |-> 120, perMileOver20 |-> 185,
            uplift |-> <<[min |-> 260, max |-> 520, add |-> 40]>>,
            manualQuoteMiles |-> 480, urgencyMinutes |-> 180, urgencyAdd |-> 30,
            after17Add |-> 30, weekendAdd |-> 55, bankHolidayAdd |-> 85,
            rounding |-> 10 ] ]
    @@
    "Engineering" :>
      [
        oneway |->
          [ baseUpTo20 |-> 120, perMileOver20 |-> 250,
            uplift |-> <<[min |-> 80, max |-> 119, add |-> 45], [min |-> 120, max |-> 179, add |-> 80]>>,
            manualQuoteMiles |-> 220, urgencyMinutes |-> 180, urgencyAdd |-> 30,
            after17Add |-> 30, weekendAdd |-> 55, bankHolidayAdd |-> 85,
            rounding |-> 10 ],
        return_same_day |->
          [ baseUpTo20 |-> 120, perMileOver20 |-> 195,
            uplift |-> <<[min |-> 240, max |-> 480, add |-> 35]>>,
            manualQuoteMiles |-> 440, urgencyMinutes |-> 180, urgencyAdd |-> 30,
            after17Add |-> 30, weekendAdd |-> 55, bankHolidayAdd |-> 85,
            rounding |-> 10 ] ]
    @@
    "Government / Public Sector" :>
      [
        oneway |->
          [ baseUpTo20 |-> 120, perMileOver20 |-> 240,
            uplift |-> <<[min |-> 80, max |-> 119, add |-> 40], [min |-> 120, max |-> 179, add |-> 70]>>,
            manualQuoteMiles |-> 220, urgencyMinutes |-> 180, urgencyAdd |-> 25,
            after17Add |-> 25, weekendAdd |-> 50, bankHolidayAdd |-> 80,
            rounding |-> 10 ],
        return_same_day |->
          [ baseUpTo20 |-> 120, perMileOver20 |-> 185,
            uplift |-> <<[min |-> 240, max |-> 480, add |-> 25]>>,
            manualQuoteMiles |-> 440, urgencyMinutes |-> 180, urgencyAdd |-> 25,
            after17Add |-> 25, weekendAdd |-> 50, bankHolidayAdd |-> 80,
            rounding |-> 10 ] ]
    @@
    "Legal" :>
      [
        oneway |->
          [ baseUpTo20 |-> 120, perMileOver20 |-> 350,
            uplift |-> <<[min |-> 80, max |-> 119, add |-> 50], [min |-> 120, max |-> 179, add |-> 90]>>,
            manualQuoteMiles |-> 180, urgencyMinutes |-> 180, urgencyAdd |-> 45,
            after17Add |-> 40, weekendAdd |-> 70, bankHolidayAdd |-> 95,
            rounding |-> 5 ],
        return_same_day |->
          [ baseUpTo20 |-> 120, perMileOver20 |-> 285,
            uplift |-> <<[min |-> 240, max |-> 480, add |-> 80]>>,
            manualQuoteMiles |-> 360, urgencyMinutes |-> 180, urgencyAdd |-> 55,
            after17Add |-> 45, weekendAdd |-> 80, bankHolidayAdd |-> 110,
            rounding |-> 5 ] ]
    @@
    "Medical" :>
      [
        oneway |->
          [ baseUpTo20 |-> 120, perMileOver20 |-> 310,
            uplift |-> <<[min |-> 80, max |-> 119, add |-> 45], [min |-> 120, max |-> 179, add |-> 85]>>,
            manualQuoteMiles |-> 200, urgencyMinutes |-> 180, urgencyAdd |-> 40,
            after17Add |-> 35, weekendAdd |-> 70, bankHolidayAdd |-> 100,
            rounding |-> 5 ],
        return_same_day |->
          [ baseUpTo20 |-> 120, perMileOver20 |-> 265,
            uplift |-> <<[min |-> 240, max |-> 520, add |-> 70]>>,
            manualQuoteMiles |-> 400, urgencyMinutes |-> 180, urgencyAdd |-> 50,
            after17Add |-> 40, weekendAdd |-> 80, bankHolidayAdd |-> 120,
            rounding |-> 5 ] ]
    @@
    "Financial Services" :>
      [
        oneway |->
          [ baseUpTo20 |-> 120, perMileOver20 |-> 325,
            uplift |-> <<[min |-> 80, max |-> 119, add |-> 50], [min |-> 120, max |-> 179, add |-> 90]>>,
            manualQuoteMiles |-> 200, urgencyMinutes |-> 180, urgencyAdd |-> 40,
            after17Add |-> 40, weekendAdd |-> 65, bankHolidayAdd |-> 95,
            rounding |-> 5 ],
        return_same_day |->
          [ baseUpTo20 |-> 120, perMileOver20 |-> 270,
            uplift |-> <<[min |-> 240, max |-> 520, add |-> 75]>>,
            manualQuoteMiles |-> 400, urgencyMinutes |-> 180, urgencyAdd |-> 50,
            after17Add |-> 45, weekendAdd |-> 75, bankHolidayAdd |-> 110,
            rounding |-> 5 ] ]
    @@
    "Other" :>
      [
        oneway |->
          Null,
        return_same_day |->
          [ baseUpTo20 |-> 120, perMileOver20 |-> 235,
            uplift |-> <<[min |-> 240, max |-> 480, add |-> 50]>>,
            manualQuoteMiles |-> 360, urgencyMinutes |-> 180, urgencyAdd |-> 40,
            after17Add |-> 35, weekendAdd |-> 65, bankHolidayAdd |-> 95,
            rounding |-> 5 ] ]

BASE_PRICING_V3 ==
    [ baseUpTo20 |-> 120, perMileOver20 |-> 275, uplift |-> <<>>,
      manualQuoteMiles |-> 240, urgencyMinutes |-> 180, urgencyAdd |-> 30,
      after17Add |-> 30, weekendAdd |-> 55, bankHolidayAdd |-> 85,
      immediateAdd |-> 45, rounding |-> 10 ]

INDUSTRY_PRICING_V3 ==
    "Aerospace" :>
      [
        oneway |->
          [ baseUpTo20 |-> 120, perMileOver20 |-> 225,
            uplift |-> <<[min |-> 80, max |-> 119, add |-> 35], [min |-> 120, max |-> 210, add |-> 20], [min |-> 211, max |-> 259, add |-> 105]>>,
            manualQuoteMiles |-> 260, urgencyMinutes |-> 180, urgencyAdd |-> 25,
            after17Add |-> 25, weekendAdd |-> 50, bankHolidayAdd |-> 80,
            immediateAdd |-> 30, rounding |-> 10 ],
        return_same_day |->
          [ baseUpTo20 |-> 120, perMileOver20 |-> 130,
            uplift |-> <<[min |-> 340, max |-> 520, add |-> 60]>>,
            manualQuoteMiles |-> 520, urgencyMinutes |-> 180, urgencyAdd |-> 25,
            after17Add |-> 25, weekendAdd |-> 50, bankHolidayAdd |-> 80,
            immediateAdd |-> 30, rounding |-> 10 ] ]
    @@
    "Legal" :>
      [
        oneway |->
          [ baseUpTo20 |-> 120, perMileOver20 |-> 265, uplift |-> <<>>,
            manualQuoteMiles |-> 240, urgencyMinutes |-> 180, urgencyAdd |-> 40,
            after17Add |-> 35, weekendAdd |-> 60, bankHolidayAdd |-> 90,
            immediateAdd |-> 60, rounding |-> 10 ],
        return_same_day |->
          [ baseUpTo20 |-> 120, perMileOver20 |-> 200, uplift |-> <<>>,
            manualQuoteMiles |-> 240, urgencyMinutes |-> 180, urgencyAdd |-> 40,
            after17Add |-> 35, weekendAdd |-> 60, bankHolidayAdd |-> 90,
            immediateAdd |-> 60, rounding |-> 10 ] ]
    @@
    "Medical" :>
      [
        oneway |->
          [ baseUpTo20 |-> 120, perMileOver20 |-> 265, uplift |-> <<>>,
            manualQuoteMiles |-> 240, urgencyMinutes |-> 180, urgencyAdd |-> 40,
            after17Add |-> 35, weekendAdd |-> 60, bankHolidayAdd |-> 90,
            immediateAdd |-> 60, rounding |-> 10 ],
        return_same_day |->
          [ baseUpTo20 |-> 120, perMileOver20 |-> 200, uplift |-> <<>>,
            manualQuoteMiles |-> 240, urgencyMinutes |-> 180, urgencyAdd |-> 40,
            after17Add |-> 35, weekendAdd |-> 60, bankHolidayAdd |-> 90,
            immediateAdd |-> 60, rounding |-> 10 ] ]
    @@
    "Financial Services" :>
      [
        oneway |->
          [ baseUpTo20 |-> 120, perMileOver20 |-> 265, uplift |-> <<>>,
            manualQuoteMiles |-> 240, urgencyMinutes |-> 180, urgencyAdd |-> 40,
            after17Add |-> 35, weekendAdd |-> 60, bankHolidayAdd |-> 90,
            immediateAdd |-> 60, rounding |-> 10 ],
        return_same_day |->
          [ baseUpTo20 |-> 120, perMileOver20 |-> 200, uplift |-> <<>>,
            manualQuoteMiles |-> 240, urgencyMinutes |-> 180, urgencyAdd |-> 40,
            after17Add |-> 35, weekendAdd |-> 60, bankHolidayAdd |-> 90,
            immediateAdd |-> 60, rounding |-> 10 ] ]
    @@
    "Defence" :>
      [
        oneway |->
          [ baseUpTo20 |-> 120, perMileOver20 |-> 265, uplift |-> <<>>,
            manualQuoteMiles |-> 240, urgencyMinutes |-> 180, urgencyAdd |-> 40,
            after17Add |-> 35, weekendAdd |-> 60, bankHolidayAdd |-> 90,
            immediateAdd |-> 60, rounding |-> 10 ],
        return_same_day |->
          [ baseUpTo20 |-> 120, perMileOver20 |-> 200, uplift |-> <<>>,
            manualQuoteMiles |-> 240, urgencyMinutes |-> 180, urgencyAdd |-> 40,
            after17Add |-> 35, weekendAdd |-> 60, bankHolidayAdd |-> 90,
            immediateAdd |-> 60, rounding |-> 10 ] ]
    @@
    "Engineering" :>
      [
        oneway |->
          [ baseUpTo20 |-> 120, perMileOver20 |-> 250, uplift |-> <<>>,
            manualQuoteMiles |-> 220, urgencyMinutes |-> 180, urgencyAdd |-> 30,
            after17Add |-> 30, weekendAdd |-> 55, bankHolidayAdd |-> 85,
            immediateAdd |-> 45, rounding |-> 10 ],
        return_same_day |->
          [ baseUpTo20 |-> 120, perMileOver20 |-> 185, uplift |-> <<>>,
            manualQuoteMiles |-> 220, urgencyMinutes |-> 180, urgencyAdd |-> 30,
            after17Add |-> 30, weekendAdd |-> 55, bankHolidayAdd |-> 85,
            immediateAdd |-> 45, rounding |-> 10 ] ]
    @@
    "Government / Public Sector" :>
      [
        oneway |->
          [ baseUpTo20 |-> 120, perMileOver20 |-> 250, uplift |-> <<>>,
            manualQuoteMiles |-> 220, urgencyMinutes |-> 180, urgencyAdd |-> 30,
            after17Add |-> 30, weekendAdd |-> 55, bankHolidayAdd |-> 85,
            immediateAdd |-> 45, rounding |-> 10 ],
        return_same_day |->
          [ baseUpTo20 |-> 120, perMileOver20 |-> 185, uplift |-> <<>>,
            manualQuoteMiles |-> 220, urgencyMinutes |-> 180, urgencyAdd |-> 30,
            after17Add |-> 30, weekendAdd |-> 55, bankHolidayAdd |-> 85,
            immediateAdd |-> 45, rounding |-> 10 ] ]
    @@
    "Other" :>
      [
        oneway |->
          [ baseUpTo20 |-> 120, perMileOver20 |-> 250, uplift |-> <<>>,
            manualQuoteMiles |-> 220, urgencyMinutes |-> 180, urgencyAdd |-> 30,
            after17Add |-> 30, weekendAdd |-> 55, bankHolidayAdd |-> 85,
            immediateAdd |-> 45, rounding |-> 10 ],
        return_same_day |->
          [ baseUpTo20 |-> 120, perMileOver20 |-> 185, uplift |-> <<>>,
            manualQuoteMiles |-> 220, urgencyMinutes |-> 180, urgencyAdd |-> 30,
            after17Add |-> 30, weekendAdd |-> 55, bankHolidayAdd |-> 85,
            immediateAdd |-> 45, rounding |-> 10 ] ]

\* A merge that ignores the industry override.
mergeProfile_base(base, pricing, industryKey, st) == base

\* getPricingProfile: the industry's pack for the service type laid over the
\* base pricing; an unknown industry or a null pack gets the base pricing.
mergeProfile(base, pricing, industryKey, st) ==
    LET s == IF st = "return_same_day" THEN "return_same_day" ELSE "oneway"
        override == IF industryKey \in DOMAIN pricing /\ pricing[industryKey][s] # Null
                    THEN pricing[industryKey][s] ELSE Null
    IN IF override = Null THEN base
       ELSE [f \in DOMAIN base |->
                IF f \in DOMAIN override THEN override[f] ELSE base[f]]

getPricingProfile_V2(industryKey, st) ==
    mergeProfile(BASE_PRICING_V2, INDUSTRY_PRICING_V2, industryKey, st)

getPricingProfile_V3(industryKey, st) ==
    mergeProfile(BASE_PRICING_V3, INDUSTRY_PRICING_V3, industryKey, st)

\* The uplift loop: the add of the first band holding the effective miles.
RECURSIVE distanceUplift(_, _, _)
distanceUplift(bands, i, effDm) ==
    IF i > Len(bands) THEN 0
    ELSE IF effDm >= bands[i].min * 10 /\ effDm <= bands[i].max * 10
    THEN bands[i].add
    ELSE distanceUplift(bands, i + 1, effDm)

\* The body shared by PR-PROFILES-V2.0 and V3.0 (part_004) from the profile
\* on: manual-quote ceiling, date, uplifts, rounding, session.  V2.0 has no
\* immediate uplift (immediateAdd is 0 and the flag is not read).
profileHandler(version, P, immediateAdd, e, r, u) ==
    IF r.missing \cap RequiredV2 # {} \/ ~Truthy(r.miles)
    THEN Unpriced(400, "Missing required fields", <<>>)
    ELSE LET milesNum == Number(r.miles)
             isReturnSameDay == r.serviceType = "return_same_day"
             effectiveMiles == IF isReturnSameDay THEN milesNum.dm * 2 ELSE milesNum.dm
         IN IF ~milesNum.finite \/ milesNum.dm <= 0
            THEN Unpriced(400, "Invalid miles", <<>>)
            ELSE IF manualQuote(effectiveMiles, P.manualQuoteMiles)
            THEN Unpriced(400, "Manual quote required", <<>>)
            ELSE IF ~r.when.valid
            THEN Unpriced(400, "Invalid whenDate/whenTime", <<>>)
            ELSE LET isAfter1700 == r.when.hour >= 17
                     weekendDay == getUTCDay(r.when) \in {0, 6}
                     diffMinutes == getTimeMinutes(r.when) - e.now
                     urgent == isUrgent(diffMinutes, P.urgencyMinutes)
                                          pricingBase == P.baseUpTo20
                     pricingDistance == over20(effectiveMiles) * P.perMileOver20
                     pricingDistanceUplift == distanceUplift(P.uplift, 1, effectiveMiles)
                     pricingUrgency == IF urgent THEN P.urgencyAdd ELSE 0
                     pricingAfter1700 == IF isAfter1700 THEN P.after17Add ELSE 0
                     pricingWeekend == IF weekendDay THEN P.weekendAdd ELSE 0
                     pricingImmediate == immediateAdd
                     totalBeforeRounding ==
                         pricingBase * 1000 + pricingDistance
                         + 1000 * (pricingDistanceUplift + pricingUrgency
                                   + pricingAfter1700 + pricingWeekend + pricingImmediate)
                     calculated == roundToNearest(totalBeforeRounding, P.rounding)
                 IN CreateSession(
                        Quote(version, effectiveMiles, pricingBase, pricingDistance,
                              pricingDistanceUplift, pricingUrgency, pricingAfter1700,
                              pricingWeekend, pricingImmediate, totalBeforeRounding,
                              P.rounding, calculated),
                        u, "Server error")

\* PR-PROFILES-V2.0
handler_profiles_v2(e, r, u) ==
    profileHandler("PR-PROFILES-V2.0", getPricingProfile_V2(r.industry, r.serviceType),
                   0, e, r, u)

\* PR-PROFILES-V3.0: adds the immediate-delivery uplift.
handler_profiles_v3(e, r, u) ==
    LET P == getPricingProfile_V3(r.industry, r.serviceType)
    IN profileHandler("PR-PROFILES-V3.0", P,
                      IF r.immediateDelivery THEN P.immediateAdd ELSE 0, e, r, u)

\* Google-Routes variant (src/api/checkout/create-session.js).  The distance
\* comes from the Routes API in meters; miles = meters / 1609.344.  Prices
\* before the rounding are kept as whole numbers of 1/22352 pound, so that
\* 1.80 pounds per mile is exactly 25 of them per meter.
PoundParts == 22352

MaxKm == 300         \* longest route returned, in kilometres
MeterGrid == 20000   \* spacing of the regular route lengths, in meters

\* Route lengths: the grid and the two lengths around 20 miles (32186.88 m).
Meters == {m \in 0..(MaxKm * 1000) : m % MeterGrid = 0 \/ m \in {32186, 32187, 40234}}

\* priceForMiles(meters / 1609.344), in 1/22352 pound
priceForMiles(meters) ==
    IF meters * 1000 <= 20 * 1609344
    THEN 90 * PoundParts
    ELSE 90 * PoundParts + (25 * meters - 36 * PoundParts)   \* 36 = 20 * 1.80

timeSurchargeFactor_evening(w) ==
    IF w.hour >= 0 /\ w.hour < 9 THEN <<3, 2>>
    ELSE IF w.hour >= 17 THEN <<13, 10>>
    ELSE <<1, 1>>

\* timeSurchargeFactor, as a fraction <<numerator, denominator>>
timeSurchargeFactor(w) ==
    IF w.hour >= 0 /\ w.hour < 9 THEN <<3, 2>>
    ELSE IF w.hour >= 18 THEN <<13, 10>>
    ELSE <<1, 1>>

\* isWeekend(dateLocal)
isWeekend(w) == getUTCDay(w) = 0 \/ getUTCDay(w) = 6

\* Math.ceil(num / den) for num >= 0, den > 0
Ceil(num, den) == (num + den - 1) \div den

\* roundUp(base * surchargeFactor * weekendFactor, 1), in pounds
roundUp(base, sf, wf) ==
    Ceil(base * sf[1] * wf[1], PoundParts * sf[2] * wf[2])

RouteHours == {0, 8, 9, 17, 18, 23}

RouteWhens ==
    [valid : {TRUE}, day : 0..MaxDay, hour : RouteHours]
    \cup { [valid |-> FALSE, day |-> 0, hour |-> 0] }

\* const { ..., mode = 'quote' } = req.body: an absent mode is 'quote'.
modeOrDefault(mode) == IF mode = "absent" THEN "quote" ELSE mode

handler_routes(e, r, u) ==
    IF r.missing \cap {"pickup", "dropoff"} # {}
    THEN Unpriced(400, "Missing pickup/dropoff", <<>>)
    ELSE IF r.missing \cap {"pickupDate", "pickupTime"} # {}
    THEN Unpriced(400, "Missing pickup date/time", <<>>)
    ELSE IF r.missing \cap {"email", "name"} # {}
    THEN Unpriced(400, "Missing contact details", <<>>)
    ELSE IF ~r.when.valid                \* toISOString() throws a RangeError
    THEN Unpriced(500, "Server error", <<>>)
    ELSE IF ~e.GOOGLE_MAPS_API_KEY
    THEN Unpriced(500, "GOOGLE_MAPS_API_KEY missing", <<>>)
    ELSE IF u.routes = "throw"
    THEN Unpriced(500, "Server error", <<"routes">>)
    ELSE IF u.routes = "error"
    THEN Unpriced(502, "Routing failed", <<"routes">>)
    ELSE IF u.routes = "none"
    THEN Unpriced(404, "No route found", <<"routes">>)
    ELSE LET base == priceForMiles(u.meters)
             surchargeFactor == timeSurchargeFactor(r.when)
             weekendFactor == IF isWeekend(r.when) THEN <<5, 4>> ELSE <<1, 1>>
             total == roundUp(base, surchargeFactor, weekendFactor)
             q == [ priced |-> TRUE, sessionCreated |-> FALSE,
                    pricingRuleVersion |-> "routes",
                    meters |-> u.meters,
                    base |-> base,
                    surchargeFactor |-> surchargeFactor,
                    weekendFactor |-> weekendFactor,
                    pricing_rounding_to |-> 1,
                    calculatedPrice |-> total,
                    amountPence |-> total * 100 ]
         IN IF modeOrDefault(r.mode) = "quote"
            THEN [res |-> Response(200, "quote"), trace |-> <<"routes">>, audit |-> q]
            ELSE [res |-> CreateSession(q, u, "Server error").res,
                  trace |-> <<"routes", "stripe.checkout.sessions.create">>,
                  audit |-> CreateSession(q, u, "Server error").audit]

\* ---- requests, environments and upstream answers of the checkout family

CanonMiles == [kind |-> "number", dm |-> 400]
CanonWhen == [valid |-> TRUE, day |-> MaxDay, hour |-> 9]

BookingRequests(industries, serviceTypes, immediates) ==
    [ missing : {{}}, miles : MilesInputs, when : Whens, industry : industries,
      serviceType : serviceTypes, immediateDelivery : immediates ]

\* One required field left out of an otherwise ordinary booking.
IncompleteRequests ==
    { [ missing |-> {f}, miles |-> CanonMiles, when |-> CanonWhen,
        industry |-> "Other", serviceType |-> "oneway",
        immediateDelivery |-> FALSE ] : f \in RequiredV2 }

PlainRequests == BookingRequests({"Other"}, {"oneway"}, {FALSE}) \cup IncompleteRequests

ProfileRequestsV2 ==
    BookingRequests(Industries, ServiceTypes, {FALSE}) \cup IncompleteRequests

ProfileRequestsV3 ==
    BookingRequests(Industries, ServiceTypes, BOOLEAN) \cup IncompleteRequests

\* The mode field as sent: absent, 'quote', 'checkout', or another string.
Modes == {"absent", "quote", "checkout", "preview"}

RouteFields == {"pickup", "dropoff", "pickupDate", "pickupTime", "email", "name"}

RouteRequests ==
    [ missing : {{}}, when : RouteWhens, mode : Modes ]
    \cup { [ missing |-> {f}, when |-> CanonWhen, mode |-> "checkout" ] : f \in RouteFields }

CheckoutEnvs == [now : Nows]

RouteEnvs == [GOOGLE_MAPS_API_KEY : BOOLEAN]

StripeUpstreams == [stripe : {"ok", "throw"}]

RouteUpstreams ==
    [ stripe : {"ok", "throw"}, routes : {"ok"}, meters : Meters ]
    \cup [ stripe : {"ok"}, routes : {"error", "none", "throw"}, meters : {0} ]

\* The upstream answers a run consumed.
ConsumedStripe(u, calls) ==
    [ f \in DOMAIN u |->
        IF \E i \in 1..Len(calls) :
              \/ f = "stripe" /\ calls[i] = "stripe.checkout.sessions.create"
              \/ f \in {"routes", "meters"} /\ calls[i] = "routes"
        THEN u[f] ELSE "n/a" ]

CheckoutHandlers ==
    { "handler_flat", "handler_v10", "handler_v11", "handler_premium",
      "handler_profiles_v2", "handler_profiles_v3", "handler_routes" }

Checkout_flat ==
    /\ handler = "none"
    /\ \E e \in CheckoutEnvs, r \in PlainRequests, u \in StripeUpstreams :
         Serve("handler_flat", e, r, ConsumedStripe(u, handler_flat(e, r, u).trace),
               handler_flat(e, r, u))

Checkout_v10 ==
    /\ handler = "none"
    /\ \E e \in CheckoutEnvs, r \in PlainRequests, u \in StripeUpstreams :
         Serve("handler_v10", e, r, ConsumedStripe(u, handler_v10(e, r, u).trace),
               handler_v10(e, r, u))

Checkout_v11 ==
    /\ handler = "none"
    /\ \E e \in CheckoutEnvs, r \in PlainRequests, u \in StripeUpstreams :
         Serve("handler_v11", e, r, ConsumedStripe(u, handler_v11(e, r, u).trace),
               handler_v11(e, r, u))

Checkout_premium ==
    /\ handler = "none"
    /\ \E e \in CheckoutEnvs, r \in PlainRequests, u \in StripeUpstreams :
         Serve("handler_premium", e, r,
               ConsumedStripe(u, handler_premium(e, r, u).trace),
               handler_premium(e, r, u))

Checkout_profiles_v2 ==
    /\ handler = "none"
    /\ \E e \in CheckoutEnvs, r \in ProfileRequestsV2, u \in StripeUpstreams :
         Serve("handler_profiles_v2", e, r,
               ConsumedStripe(u, handler_profiles_v2(e, r, u).trace),
               handler_profiles_v2(e, r, u))

Checkout_profiles_v3 ==
    /\ handler = "none"
    /\ \E e \in CheckoutEnvs, r \in ProfileRequestsV3, u \in StripeUpstreams :
         Serve("handler_profiles_v3", e, r,
               ConsumedStripe(u, handler_profiles_v3(e, r, u).trace),
               handler_profiles_v3(e, r, u))

Checkout_routes ==
    /\ handler = "none"
    /\ \E e \in RouteEnvs, r \in RouteRequests, u \in RouteUpstreams :
         Serve("handler_routes", e, r,
               ConsumedStripe(u, handler_routes(e, r, u).trace),
               handler_routes(e, r, u))

\* ------------------------------------------------------------------------
\* Distance lookup and availability proxies
\* ------------------------------------------------------------------------

LookupGrid == 5000     \* spacing of the route lengths looked up, in meters

LookupMeters == {m \in 0..(MaxKm * 1000) : m % LookupGrid = 0 \/ m \in {80, 1689, 1690}}

\* A response whose body carries, besides the handler's own wording, what an
\* upstream sent or the message of the error an upstream call raised.
Detailed(status, body, detail) == [status |-> status, body |-> body, detail |-> detail]

Lookup(response, calls) == [res |-> response, trace |-> calls, audit |-> Idle]

\* Math.max(1, Math.round((meters / 1609.344) * 10) / 10), in tenths of a mile
lookupMiles(meters) == Max(10, (1250 * meters + 100584) \div 201168)

\* postcodes.io answers for one postcode, and OSRM's for the route
GeoAnswers == {"ok", "notfound", "garbage", "reject"}
OsrmAnswers == {"ok", "noroute", "garbage", "reject"}

DistanceRequests == [from : BOOLEAN, to : BOOLEAN]

DistanceUpstreams ==
    [geoFrom : GeoAnswers, geoTo : GeoAnswers, osrm : {"ok"}, meters : LookupMeters]
    \cup [geoFrom : {"ok"}, geoTo : {"ok"}, osrm : OsrmAnswers \ {"ok"}, meters : {0}]

\* geocode(pc): "ok", or the message of the error it throws
geocode(answer) ==
    CASE answer = "ok" -> "ok"
      [] answer = "notfound" -> "Invalid postcode"
      [] answer = "garbage" -> "json error message"
      [] answer = "reject" -> "fetch error message"

\* part_003, distance lookup: every failure lands in the one catch, which
\* answers 400 with the error's message.
handler_distance(e, r, u) ==
    IF ~r.from \/ ~r.to
    THEN Lookup(Detailed(400, "Missing from/to", "none"), <<>>)
    ELSE IF geocode(u.geoFrom) # "ok"
    THEN Lookup(Detailed(400, "err.message", geocode(u.geoFrom)), <<"geocode">>)
    ELSE IF geocode(u.geoTo) # "ok"
    THEN Lookup(Detailed(400, "err.message", geocode(u.geoTo)), <<"geocode", "geocode">>)
    ELSE LET calls == <<"geocode", "geocode", "osrm">>
         IN CASE u.osrm = "reject" ->
                    Lookup(Detailed(400, "err.message", "fetch error message"), calls)
              [] u.osrm = "garbage" ->
                    Lookup(Detailed(400, "err.message", "json error message"), calls)
              [] u.osrm = "noroute" ->
                    Lookup(Detailed(400, "err.message", "Routing failed"), calls)
              [] u.osrm = "ok" ->
                    [res |-> Detailed(200, "miles", "none"), trace |-> calls,
                     audit |-> [miles |-> lookupMiles(u.meters)]]

\* What the Make availability webhook sends back: unreachable, or a status
\* and a body that is a JSON object, a JSON object wrapped in junk, or no JSON.
MakeBodies ==
    [kind : {"json", "wrapped"}, available : {"true", "false", "absent"}]
    \cup {[kind |-> "garbage", available |-> "absent"]}

MakeAnswers ==
    [reached : {TRUE}, ok : BOOLEAN, body : MakeBodies]
    \cup {[reached |-> FALSE, ok |-> FALSE, body |-> [kind |-> "garbage", available |-> "absent"]]}

\* extractFirstJsonObject(raw): the object, or null
extractFirstJsonObject(body) ==
    IF body.kind \in {"garbage", "accepted"} THEN Null ELSE body

AvailabilityFields == {"pickup", "dropoff", "miles", "email", "whenDate", "whenTime"}

AvailabilityRequests ==
    [parses : {TRUE}, missing : {{}} \cup {{f} : f \in AvailabilityFields}]
    \cup {[parses |-> FALSE, missing |-> {}]}

AvailabilityEnvs == [MAKE_AVAILABILITY_WEBHOOK_URL : BOOLEAN]

\* src/api/availability, first handler: the status Make answered with is
\* never looked at; a body without a boolean "available" is a 502.
handler_availability_v1(e, r, u) ==
    IF ~e.MAKE_AVAILABILITY_WEBHOOK_URL
    THEN Lookup(Detailed(500, "Server misconfigured", "none"), <<>>)
    ELSE IF ~r.parses \/ r.missing # {}
    THEN Lookup(Detailed(400, "Missing required fields", "none"), <<>>)
    ELSE IF ~u.reached
    THEN Lookup(Detailed(502, "Upstream error", "none"), <<"make">>)
    ELSE LET parsed == extractFirstJsonObject(u.body)
         IN IF parsed = Null \/ parsed.available = "absent"
            THEN Lookup(Detailed(502, "Bad upstream response", "none"), <<"make">>)
            ELSE Lookup(Detailed(200, "parsed", "upstream body"), <<"make">>)

\* src/api/availability, second handler: reads the raw body itself; miles
\* and email are not required; a non-OK answer from Make is passed on inside
\* the 500, and a body that is not JSON is passed on as {raw: text}.
handler_availability_v2(e, r, u) ==
    IF ~r.parses
    THEN Lookup(Detailed(400, "Invalid request body", "none"), <<>>)
    ELSE IF r.missing \cap {"pickup", "dropoff", "whenDate", "whenTime"} # {}
    THEN Lookup(Detailed(400, "Missing required fields", "none"), <<>>)
    ELSE IF ~u.reached
    THEN Lookup(Detailed(500, "Availability service unreachable", "none"), <<"make">>)
    ELSE IF ~u.ok
    THEN Lookup(Detailed(500, "Availability check failed", "upstream body"), <<"make">>)
    ELSE Lookup(Detailed(200, IF u.body.kind = "json" THEN "data" ELSE "raw:text",
                         "upstream body"), <<"make">>)

LookupHandlers ==
    {"handler_distance", "handler_availability_v1", "handler_availability_v2"}

\* The upstream answers a lookup consumed.
ConsumedLookup(u, calls) ==
    IF calls = <<>> THEN Idle
    ELSE IF calls[1] = "make" THEN u
    ELSE [ geoFrom |-> u.geoFrom,
           geoTo |-> IF Len(calls) >= 2 THEN u.geoTo ELSE "n/a",
           osrm |-> IF Len(calls) >= 3 THEN u.osrm ELSE "n/a",
           meters |-> IF Len(calls) >= 3 /\ u.osrm = "ok" THEN u.meters ELSE 0 ]

Lookup_distance ==
    /\ handler = "none"
    /\ \E r \in DistanceRequests, u \in DistanceUpstreams :
         Serve("handler_distance", Idle, r,
               ConsumedLookup(u, handler_distance(Idle, r, u).trace),
               handler_distance(Idle, r, u))

Lookup_availability_v1 ==
    /\ handler = "none"
    /\ \E e \in AvailabilityEnvs, r \in AvailabilityRequests, u \in MakeAnswers :
         Serve("handler_availability_v1", e, r,
               ConsumedLookup(u, handler_availability_v1(e, r, u).trace),
               handler_availability_v1(e, r, u))

Lookup_availability_v2 ==
    /\ handler = "none"
    /\ \E r \in AvailabilityRequests, u \in MakeAnswers :
         Serve("handler_availability_v2", Idle, r,
               ConsumedLookup(u, handler_availability_v2(Idle, r, u).trace),
               handler_availability_v2(Idle, r, u))

\* ---- the customer-friendly availability handler (part_002)

UniformMessage == "That time slot is no longer available. Please choose a different time."

\* What the friendly handler answers: always 200; the message is absent
\* ("none") when the slot is available.
Friendly(available, message) ==
    [status |-> 200, body |-> IF available THEN "available:true" ELSE "available:false",
     detail |-> message]

\* toIsoEnd(whenDate, whenTime), in seconds since 1970-01-01T00:00Z, or null
toIsoEnd(w) == IF ~w.valid THEN Null ELSE [seconds |-> getTimeMinutes(w) * 60]

\* computeWindow (part_002): the job ends at the requested time and starts a
\* drive at 30 mph plus a 20 minute buffer earlier; a mileage that is not a
\* positive number counts as a 60 minute drive.  Seconds; a tenth of a mile
\* at 30 mph takes 12 seconds.
computeWindow(w, m) ==
    IF toIsoEnd(w) = Null THEN [scheduleStart |-> Null, scheduleEnd |-> Null]
    ELSE LET milesNum == Number(m)
             driveSeconds == IF milesNum.finite /\ milesNum.dm > 0
                             THEN milesNum.dm * 12 ELSE 3600
         IN [scheduleStart |-> [seconds |-> toIsoEnd(w).seconds - (driveSeconds + 20 * 60)],
             scheduleEnd |-> toIsoEnd(w)]

\* Make's answer to the friendly handler: as MakeAnswers, with or without a
\* message of Make's own in the JSON object.
FriendlyMakeAnswers ==
    [reached : {TRUE}, ok : BOOLEAN, body : MakeBodies, message : {"absent", "upstream message"}]
    \cup {[reached |-> FALSE, ok |-> FALSE,
           body |-> [kind |-> "garbage", available |-> "absent"], message |-> "absent"]}

FriendlyMiles ==
    { CanonMiles, [kind |-> "number", dm |-> 5], [kind |-> "number", dm |-> MaxMiles * 10],
      [kind |-> "zero", dm |-> 0], [kind |-> "negative", dm |-> -50],
      [kind |-> "text", dm |-> 0], [kind |-> "prefixed", dm |-> 120] }

FriendlyRequests ==
    [missing : {{}}, miles : FriendlyMiles, when : Whens]
    \cup { [missing |-> {f}, miles |-> CanonMiles, when |-> CanonWhen] : f \in AvailabilityFields }

\* part_002 handler: every outcome is a 200; a clash reported by Make passes
\* Make's own message through when it has one.
handler_availability_friendly(e, r, u) ==
    IF ~e.MAKE_AVAILABILITY_WEBHOOK_URL
    THEN Lookup(Friendly(FALSE, UniformMessage), <<>>)
    ELSE IF r.missing # {} \/ ~Truthy(r.miles)
    THEN Lookup(Friendly(FALSE, UniformMessage), <<>>)
    ELSE IF computeWindow(r.when, r.miles).scheduleStart = Null
    THEN Lookup(Friendly(FALSE, UniformMessage), <<>>)
    ELSE LET window == computeWindow(r.when, r.miles)
             out(response) == [res |-> response, trace |-> <<"make">>, audit |-> window]
         IN IF ~u.reached THEN out(Friendly(FALSE, UniformMessage))
            ELSE LET parsed == extractFirstJsonObject(u.body)
                 IN IF parsed = Null \/ parsed.available = "absent"
                    THEN out(Friendly(FALSE, UniformMessage))
                    ELSE IF parsed.available = "false"
                    THEN out(Friendly(FALSE, IF u.message = "absent" THEN UniformMessage
                                             ELSE u.message))
                    ELSE out(Friendly(TRUE, "none"))

Lookup_availability_friendly ==
    /\ handler = "none"
    /\ \E e \in AvailabilityEnvs, r \in FriendlyRequests, u \in FriendlyMakeAnswers :
         Serve("handler_availability_friendly", e, r,
               ConsumedLookup(u, handler_availability_friendly(e, r, u).trace),
               handler_availability_friendly(e, r, u))

\* ------------------------------------------------------------------------
\* From checkout to webhook: booking details carried in Stripe metadata
\* ------------------------------------------------------------------------

BookingDetails == {"pickup", "dropoff", "miles", "date", "time"}

\* The metadata keys under which each checkout handler stores the booking
\* details of the session it creates.
MetadataKeys(h) ==
    CASE h \in {"handler_flat", "handler_routes"} -> {"pickup", "dropoff", "miles", "when"}
      [] h \in {"handler_v10", "handler_v11", "handler_premium"} ->
             {"pickup", "dropoff", "miles", "whenDate", "whenTime"}
      [] h \in {"handler_profiles_v2", "handler_profiles_v3"} ->
             {"pickup", "dropoff", "miles_oneway", "miles_effective", "whenDate", "whenTime"}

\* What metadata.miles holds: the submitted mileage, String(Math.round(milesNum))
\* in PR-PREMIUM-V1.0, the mileage of the route found in the Google-Routes
\* handler.
MilesStored(h, r) ==
    CASE h = "handler_premium" ->
             IF r.miles.dm % 10 = 0 THEN "submitted" ELSE "rounded"
      [] h = "handler_routes" -> "computed"
      [] OTHER -> "submitted"

\* The metadata keys a webhook handler looks up, in order, for each booking
\* detail of its checkout.session.completed message; no keys: the message
\* has no such line.
KeysRead(w, detail) ==
    CASE w \in {"POST_route_v1", "POST_route_v2", "POST_part007"} ->
             ( CASE detail = "pickup" -> <<"pickup_address">>
                 [] detail = "dropoff" -> <<"dropoff_address">>
                 [] OTHER -> <<>> )
      [] w \in {"handler_part005_v1", "handler_part005_v2"} ->
             ( CASE detail = "date" -> <<"when_date", "whenDate">>
                 [] detail = "time" -> <<"when_time", "whenTime">>
                 [] OTHER -> <<detail>> )
      [] w = "handler_webhook_v1" ->
             ( CASE detail \in {"date", "time"} -> <<"when">>
                 [] OTHER -> <<detail>> )
      [] w = "handler_webhook_v2" ->
             ( CASE detail = "date" -> <<"whenDate", "date">>
                 [] detail = "time" -> <<"whenTime", "time">>
                 [] OTHER -> <<detail>> )
      [] OTHER -> <<>>

\* One line of the message: the value found under the first key present, the
\* placeholder ('N/A', 'Pickup address not provided') when none is, "absent"
\* when the message has no such line.  In part_005 the When line shows
\* md.when only when neither a date key nor a time key is present
\* ("} else if (md.when)"); with one of the two it shows that one alone.
NotificationLine(w, detail, keys, milesStored) ==
    LET tried == KeysRead(w, detail)
        found(d) == \E i \in DOMAIN KeysRead(w, d) : KeysRead(w, d)[i] \in keys
        whenAlone == /\ w \in {"handler_part005_v1", "handler_part005_v2"}
                     /\ detail \in {"date", "time"}
                     /\ ~found("date") /\ ~found("time")
                     /\ "when" \in keys
    IN IF tried = <<>> THEN "absent"
       ELSE IF found(detail) THEN (IF detail = "miles" THEN milesStored ELSE "submitted")
       ELSE IF whenAlone THEN "submitted"
       ELSE "placeholder"

\* The checkout.session.completed event Stripe delivers for a session: signed
\* with one of the endpoint's secrets, carrying the session's metadata.
SessionEvent(sig, writer, r) ==
    [ sig |-> sig, intact |-> TRUE, body |-> "event",
      type |-> "checkout.session.completed", metadata |-> "booking",
      payment_intent |-> FALSE,
      writer |-> writer, keys |-> MetadataKeys(writer),
      milesStored |-> MilesStored(writer, r) ]

\* The run of webhook handler w on that event, with the message it sent.
Delivered(w, o, r) ==
    [ res |-> o.res, trace |-> o.trace,
      audit |-> [ accepted |-> o.audit.accepted, verified |-> o.audit.verified,
                  md |-> o.audit.md,
                  notified |-> \E i \in DOMAIN o.trace : o.trace[i] = "telegram",
                  lines |-> [d \in BookingDetails |->
                                NotificationLine(w, d, r.keys, r.milesStored)] ] ]

JourneyEnv ==
    [ STRIPE_WEBHOOK_SECRET_LIVE |-> KeyLive, STRIPE_WEBHOOK_SECRET_TEST |-> KeyTest,
      STRIPE_WEBHOOK_SECRET |-> KeyGeneric, telegram |-> TRUE,
      MAKE_CREATE_JOB_WEBHOOK_URL |-> TRUE ]

JourneySignatures == {KeyLive, KeyGeneric}

\* The bookings whose sessions are followed to the webhook.
JourneyMiles == {CanonMiles, [kind |-> "number", dm |-> 125]}

JourneyRequests ==
    [ missing : {{}}, miles : JourneyMiles, when : {CanonWhen}, industry : {"Other", "Medical"},
      serviceType : ServiceTypes, immediateDelivery : {FALSE} ]

JourneyRouteRequests == [missing : {{}}, when : {CanonWhen}, mode : {"quote", "checkout"}]

JourneyRouteUpstreams == [stripe : {"ok", "throw"}, routes : {"ok"}, meters : {40234}]

JourneyEnvs == [now : {1440 + 840}]

SessionCreated == handler \in CheckoutHandlers /\ audit.priced /\ audit.sessionCreated

\* A booking submitted to a checkout handler.
Create_flat ==
    /\ handler = "none"
    /\ \E e \in JourneyEnvs, r \in JourneyRequests, u \in StripeUpstreams :
         Serve("handler_flat", e, r, ConsumedStripe(u, handler_flat(e, r, u).trace),
               handler_flat(e, r, u))

Create_v10 ==
    /\ handler = "none"
    /\ \E e \in JourneyEnvs, r \in JourneyRequests, u \in StripeUpstreams :
         Serve("handler_v10", e, r, ConsumedStripe(u, handler_v10(e, r, u).trace),
               handler_v10(e, r, u))

Create_v11 ==
    /\ handler = "none"
    /\ \E e \in JourneyEnvs, r \in JourneyRequests, u \in StripeUpstreams :
         Serve("handler_v11", e, r, ConsumedStripe(u, handler_v11(e, r, u).trace),
               handler_v11(e, r, u))

Create_premium ==
    /\ handler = "none"
    /\ \E e \in JourneyEnvs, r \in JourneyRequests, u \in StripeUpstreams :
         Serve("handler_premium", e, r, ConsumedStripe(u, handler_premium(e, r, u).trace),
               handler_premium(e, r, u))

Create_profiles_v2 ==
    /\ handler = "none"
    /\ \E e \in JourneyEnvs, r \in JourneyRequests, u \in StripeUpstreams :
         Serve("handler_profiles_v2", e, r, ConsumedStripe(u, handler_profiles_v2(e, r, u).trace),
               handler_profiles_v2(e, r, u))

Create_profiles_v3 ==
    /\ handler = "none"
    /\ \E e \in JourneyEnvs, r \in JourneyRequests, u \in StripeUpstreams :
         Serve("handler_profiles_v3", e, r, ConsumedStripe(u, handler_profiles_v3(e, r, u).trace),
               handler_profiles_v3(e, r, u))

Create_routes ==
    /\ handler = "none"
    /\ \E e \in RouteEnvs, r \in JourneyRouteRequests, u \in JourneyRouteUpstreams :
         Serve("handler_routes", e, r, ConsumedStripe(u, handler_routes(e, r, u).trace),
               handler_routes(e, r, u))

\* Stripe delivers the checkout.session.completed event of the session just
\* created to a webhook handler.
Deliver_route_v1 ==
    /\ SessionCreated
    /\ \E sig \in JourneySignatures, u \in WebhookUpstreams :
         LET r == SessionEvent(sig, handler, req)
             o == POST_route_v1(JourneyEnv, r, u)
         IN Serve("POST_route_v1", JourneyEnv, r, Consumed(u, o.trace), Delivered("POST_route_v1", o, r))

Deliver_route_v2 ==
    /\ SessionCreated
    /\ \E sig \in JourneySignatures, u \in WebhookUpstreams :
         LET r == SessionEvent(sig, handler, req)
             o == POST_route_v2(JourneyEnv, r, u)
         IN Serve("POST_route_v2", JourneyEnv, r, Consumed(u, o.trace), Delivered("POST_route_v2", o, r))

Deliver_part006 ==
    /\ SessionCreated
    /\ \E sig \in JourneySignatures, u \in WebhookUpstreams :
         LET r == SessionEvent(sig, handler, req)
             o == handler_part006(JourneyEnv, r, u)
         IN Serve("handler_part006", JourneyEnv, r, Consumed(u, o.trace), Delivered("handler_part006", o, r))

Deliver_part007 ==
    /\ SessionCreated
    /\ \E sig \in JourneySignatures, u \in WebhookUpstreams :
         LET r == SessionEvent(sig, handler, req)
             o == POST_part007(JourneyEnv, r, u)
         IN Serve("POST_part007", JourneyEnv, r, Consumed(u, o.trace), Delivered("POST_part007", o, r))

Deliver_part005_v1 ==
    /\ SessionCreated
    /\ \E sig \in JourneySignatures, u \in WebhookUpstreams :
         LET r == SessionEvent(sig, handler, req)
             o == handler_part005_v1(JourneyEnv, r, u)
         IN Serve("handler_part005_v1", JourneyEnv, r, Consumed(u, o.trace), Delivered("handler_part005_v1", o, r))

Deliver_part005_v2 ==
    /\ SessionCreated
    /\ \E sig \in JourneySignatures, u \in WebhookUpstreams :
         LET r == SessionEvent(sig, handler, req)
             o == handler_part005_v2(JourneyEnv, r, u)
         IN Serve("handler_part005_v2", JourneyEnv, r, Consumed(u, o.trace), Delivered("handler_part005_v2", o, r))

Deliver_webhook_v1 ==
    /\ SessionCreated
    /\ \E sig \in JourneySignatures, u \in WebhookUpstreams :
         LET r == SessionEvent(sig, handler, req)
             o == handler_webhook_v1(JourneyEnv, r, u)
         IN Serve("handler_webhook_v1", JourneyEnv, r, Consumed(u, o.trace), Delivered("handler_webhook_v1", o, r))

Deliver_webhook_v2 ==
    /\ SessionCreated
    /\ \E sig \in JourneySignatures, u \in WebhookUpstreams :
         LET r == SessionEvent(sig, handler, req)
             o == handler_webhook_v2(JourneyEnv, r, u)
         IN Serve("handler_webhook_v2", JourneyEnv, r, Consumed(u, o.trace), Delivered("handler_webhook_v2", o, r))

\* ------------------------------------------------------------------------
\* The schedule window, as each place that needs it computes it
\* ------------------------------------------------------------------------

\* The booking inputs a window is computed from.
WindowRequests == [when : Whens, miles : FriendlyMiles, serviceType : ServiceTypes]

\* The UTC offset of the server's local time, in minutes (GMT, BST).
UtcOffsets == {0, 60}

NoWindow == [scheduleStart |-> Null, scheduleEnd |-> Null]

\* A window computation run on its own: the inputs, and the window.
Window(w) == [res |-> Idle, trace |-> <<>>, audit |-> w]

\* computeScheduleWindowFallback (webhook.js): as computeWindow.
computeScheduleWindowFallback(w, m) ==
    IF ~w.valid THEN NoWindow
    ELSE LET milesNum == Number(m)
             driveSeconds == IF milesNum.finite /\ milesNum.dm > 0
                             THEN milesNum.dm * 12 ELSE 3600
             endSeconds == getTimeMinutes(w) * 60
         IN [scheduleStart |-> [seconds |-> endSeconds - (driveSeconds + 20 * 60)],
             scheduleEnd |-> [seconds |-> endSeconds]]

\* The window PR-PROFILES-V3.0 records in the metadata (part_004): computed
\* on the effective miles, doubled for return_same_day; an unparsable date is
\* answered 400 and no window is recorded.
scheduleWindow_checkout(w, m, st) ==
    IF ~w.valid THEN NoWindow
    ELSE LET effectiveMiles == IF st = "return_same_day" THEN 2 * Number(m).dm
                               ELSE Number(m).dm
             endSeconds == getTimeMinutes(w) * 60
         IN [scheduleStart |-> [seconds |-> endSeconds - (effectiveMiles * 12 + 20 * 60)],
             scheduleEnd |-> [seconds |-> endSeconds]]

\* computeScheduleWindow (api/stripe/availability.js): the date and time are
\* read as the server's local time, the mileage with parseFloat, a mileage
\* that is not positive counts as one hour, and the buffer is 30 minutes.
computeScheduleWindow(w, m, offset) ==
    IF ~w.valid THEN NoWindow
    ELSE LET milesNum == IF Truthy(m) THEN parseFloat(m) ELSE [finite |-> TRUE, dm |-> 0]
             travelSeconds == IF milesNum.finite /\ milesNum.dm > 0
                              THEN milesNum.dm * 12 ELSE 3600
             endSeconds == (getTimeMinutes(w) - offset) * 60
         IN [scheduleStart |-> [seconds |-> endSeconds - (travelSeconds + 30 * 60)],
             scheduleEnd |-> [seconds |-> endSeconds]]

WindowComputations ==
    { "handler_availability_part003", "handler_availability_stripe",
      "handler_availability_part001", "scheduleWindow_checkout",
      "computeScheduleWindowFallback" }

\* The checkout handler reaches its window code with a positive numeric
\* mileage below the manual-quote ceiling.
Window_checkout ==
    /\ handler = "none"
    /\ \E r \in WindowRequests :
         /\ r.miles.kind = "number"
         /\ ~manualQuote(r.miles.dm, BASE_PRICING_V3.manualQuoteMiles)
         /\ Serve("scheduleWindow_checkout", Idle, r, Idle,
                  Window(scheduleWindow_checkout(r.when, r.miles, r.serviceType)))

Window_fallback ==
    /\ handler = "none"
    /\ \E r \in WindowRequests :
         Serve("computeScheduleWindowFallback", Idle, r, Idle,
               Window(computeScheduleWindowFallback(r.when, r.miles)))

\* ---- the availability handlers that send the window to Make

\* A POST to an availability handler: a body that parses, with the booking
\* inputs and possibly fields missing, or one that does not parse.  The
\* service type is not a field these handlers read.
WindowPosts ==
    [parses : {TRUE}, missing : {{}}, miles : FriendlyMiles, when : Whens,
     serviceType : ServiceTypes]
    \cup [parses : {TRUE},
          missing : {{f} : f \in AvailabilityFields} \cup {{"pickup", "whenTime"}},
          miles : {CanonMiles}, when : {CanonWhen}, serviceType : {"oneway"}]
    \cup [parses : {FALSE}, missing : {{}}, miles : {CanonMiles}, when : {CanonWhen},
          serviceType : {"oneway"}]

WindowEnvs ==
    [MAKE_AVAILABILITY_WEBHOOK_URL : BOOLEAN, AVAILABILITY_WEBHOOK_URL : BOOLEAN,
     utcOffset : UtcOffsets]

\* Make's answers, with the plain text "Accepted" Make sends by default.
WindowMakeAnswers ==
    MakeAnswers
    \cup {[reached |-> TRUE, ok |-> TRUE, body |-> [kind |-> "accepted", available |-> "absent"]]}

\* A run of an availability handler: the response, the calls, and the
\* window sent to Make (none when Make was not called).
Checked(response, calls, window) == [res |-> response, trace |-> calls, audit |-> window]

\* part_003, the POST handler: all six fields required, the window from
\* computeWindow; an unusable window is a 400, a Make answer without a
\* boolean "available" (or a failed fetch) a 502.
handler_availability_part003(e, r, u) ==
    IF ~e.MAKE_AVAILABILITY_WEBHOOK_URL
    THEN Checked(Detailed(500, "Server misconfigured", "none"), <<>>, NoWindow)
    ELSE IF ~r.parses \/ r.missing # {} \/ ~Truthy(r.miles)
    THEN Checked(Detailed(400, "Missing required fields to check availability.", "none"),
                 <<>>, NoWindow)
    ELSE IF computeWindow(r.when, r.miles).scheduleStart = Null
    THEN Checked(Detailed(400, "Invalid date/time supplied. Please choose a valid date and time.",
                          "none"), <<>>, NoWindow)
    ELSE LET window == computeWindow(r.when, r.miles)
             parsed == extractFirstJsonObject(u.body)
         IN IF ~u.reached \/ parsed = Null \/ parsed.available = "absent"
            THEN Checked(Detailed(502, "Unexpected response from scheduling system. Please try again.",
                                  "none"), <<"make">>, window)
            ELSE Checked(Detailed(200, "parsed", "upstream body"), <<"make">>, window)

\* The miles field of the body as the handler destructures it: a field
\* that is missing is undefined, which is falsy like the number 0, so that
\* computeScheduleWindow takes milesNum = 0 and the default one hour drive.
milesField(r) == IF "miles" \in r.missing THEN [kind |-> "zero", dm |-> 0] ELSE r.miles

\* The body shared by api/stripe/availability.js and part_001 once the
\* required fields are there: the window from computeScheduleWindow (null
\* for a date that does not parse) is sent to Make, and the answer parsed
\* with JSON.parse; acceptsText: the plain text "Accepted" counts as
\* available.
checkWithMake(acceptsText, e, r, u) ==
    LET window == computeScheduleWindow(r.when, milesField(r), e.utcOffset)
    IN IF ~u.reached
       THEN Checked(Detailed(502, "Unable to contact scheduling system. Please try again.",
                             "none"), <<"make">>, window)
       ELSE IF u.body.kind # "json"
       THEN IF acceptsText /\ u.body.kind = "accepted"
            THEN Checked(Detailed(200, "available:true", "none"), <<"make">>, window)
            ELSE Checked(Detailed(502, "Unexpected response from scheduling system. Please try again.",
                                  "none"), <<"make">>, window)
       ELSE IF u.body.available = "absent"
       THEN Checked(Detailed(502, "Invalid response from scheduling system. Please try again.",
                             "none"), <<"make">>, window)
       ELSE Checked(Detailed(200, "parsed", "upstream body"), <<"make">>, window)

\* api/stripe/availability.js: either URL variable; pickup, dropoff,
\* whenDate and whenTime required, the 400 lists the ones missing.
handler_availability_stripe(e, r, u) ==
    IF ~(e.MAKE_AVAILABILITY_WEBHOOK_URL \/ e.AVAILABILITY_WEBHOOK_URL)
    THEN Checked(Detailed(500, "Booking system configuration error. Please try again later.",
                          "none"), <<>>, NoWindow)
    ELSE IF ~r.parses
    THEN Checked(Detailed(400, "Invalid request body.", "none"), <<>>, NoWindow)
    ELSE IF r.missing \cap {"pickup", "dropoff", "whenDate", "whenTime"} # {}
    THEN Checked([status |-> 400, body |-> "Missing required fields to check availability: ",
                  detail |-> "none",
                  listed |-> r.missing \cap {"pickup", "dropoff", "whenDate", "whenTime"}],
                 <<>>, NoWindow)
    ELSE checkWithMake(TRUE, e, r, u)

\* part_001: AVAILABILITY_WEBHOOK_URL only; email required as well; no
\* special case for "Accepted".
handler_availability_part001(e, r, u) ==
    IF ~e.AVAILABILITY_WEBHOOK_URL
    THEN Checked(Detailed(500, "Booking system configuration error. Please try again later.",
                          "none"), <<>>, NoWindow)
    ELSE IF ~r.parses
    THEN Checked(Detailed(400, "Invalid request body.", "none"), <<>>, NoWindow)
    ELSE IF r.missing \cap {"pickup", "dropoff", "whenDate", "whenTime", "email"} # {}
    THEN Checked(Detailed(400, "Missing required fields to check availability.", "none"),
                 <<>>, NoWindow)
    ELSE checkWithMake(FALSE, e, r, u)

Window_availability_part003 ==
    /\ handler = "none"
    /\ \E e \in WindowEnvs, r \in WindowPosts, u \in WindowMakeAnswers :
         Serve("handler_availability_part003", e, r,
               ConsumedLookup(u, handler_availability_part003(e, r, u).trace),
               handler_availability_part003(e, r, u))

Window_availability_stripe ==
    /\ handler = "none"
    /\ \E e \in WindowEnvs, r \in WindowPosts, u \in WindowMakeAnswers :
         Serve("handler_availability_stripe", e, r,
               ConsumedLookup(u, handler_availability_stripe(e, r, u).trace),
               handler_availability_stripe(e, r, u))

Window_availability_part001 ==
    /\ handler = "none"
    /\ \E e \in WindowEnvs, r \in WindowPosts, u \in WindowMakeAnswers :
         Serve("handler_availability_part001", e, r,
               ConsumedLookup(u, handler_availability_part001(e, r, u).trace),
               handler_availability_part001(e, r, u))

Init ==
    /\ handler = "none"
    /\ env = Idle
    /\ req = Idle
    /\ up = Idle
    /\ res = Idle
    /\ trace = <<>>
    /\ audit = Idle

NextWebhook ==
    \/ Webhook_route_v1
    \/ Webhook_route_v2
    \/ Webhook_part006
    \/ Webhook_part007
    \/ Webhook_part005_v1
    \/ Webhook_part005_v2
    \/ Webhook_webhook_v1
    \/ Webhook_webhook_v2

SpecWebhook == Init /\ [][NextWebhook]_vars

NextCheckout ==
    \/ Checkout_flat
    \/ Checkout_v10
    \/ Checkout_v11
    \/ Checkout_premium
    \/ Checkout_profiles_v2
    \/ Checkout_profiles_v3
    \/ Checkout_routes

SpecCheckout == Init /\ [][NextCheckout]_vars

NextLookup ==
    \/ Lookup_distance
    \/ Lookup_availability_v1
    \/ Lookup_availability_v2
    \/ Lookup_availability_friendly

SpecLookup == Init /\ [][NextLookup]_vars

NextJourney ==
    \/ Create_flat
    \/ Create_v10
    \/ Create_v11
    \/ Create_premium
    \/ Create_profiles_v2
    \/ Create_profiles_v3
    \/ Create_routes
    \/ Deliver_route_v1
    \/ Deliver_route_v2
    \/ Deliver_part006
    \/ Deliver_part007
    \/ Deliver_part005_v1
    \/ Deliver_part005_v2
    \/ Deliver_webhook_v1
    \/ Deliver_webhook_v2

SpecJourney == Init /\ [][NextJourney]_vars

NextWindow ==
    \/ Window_availability_part003
    \/ Window_availability_stripe
    \/ Window_availability_part001
    \/ Window_checkout
    \/ Window_fallback

SpecWindow == Init /\ [][NextWindow]_vars

IsWebhook == handler \in WebhookHandlers

\* ------------------------------------------------------------------------
\* Properties
\* ------------------------------------------------------------------------

IsCheckout == handler \in CheckoutHandlers

IsLookup == handler \in LookupHandlers

\* The request is validly signed under one of the configured signing secrets.
ValidlySigned ==
    \E secret \in { env.STRIPE_WEBHOOK_SECRET_LIVE, env.STRIPE_WEBHOOK_SECRET_TEST,
                    env.STRIPE_WEBHOOK_SECRET } :
        constructEvent(req, secret)

\* C1: every webhook handler answers 400 to a POST that is not validly
\* signed under a configured secret, and never 200.
C1_UnsignedRejected ==
    (IsWebhook /\ ~ValidlySigned) => res.status = 400

\* The signing secrets a handler reads from its environment.
SecretsRead ==
    CASE handler \in {"POST_route_v2", "handler_webhook_v1"} ->
             {env.STRIPE_WEBHOOK_SECRET}
      [] handler = "POST_part007" ->
             {env.STRIPE_WEBHOOK_SECRET_LIVE, env.STRIPE_WEBHOOK_SECRET_TEST}
      [] handler \in {"handler_part005_v1", "handler_part005_v2"} ->
             {env.STRIPE_WEBHOOK_SECRET_LIVE, env.STRIPE_WEBHOOK_SECRET}
      [] handler = "handler_webhook_v2" ->
             {env.STRIPE_WEBHOOK_SECRET_LIVE, env.STRIPE_WEBHOOK_SECRET_TEST,
              env.STRIPE_WEBHOOK_SECRET}
      [] OTHER -> {}

\* C2: a payload validly signed under a configured secret that the handler
\* reads is verified and dispatched, whether one secret or two are configured
\* and whichever of them signed it.
C2_SignedAccepted ==
    (IsWebhook /\ \E secret \in SecretsRead : constructEvent(req, secret))
        => audit.verified

\* C3: a failing Telegram notification is swallowed: the verified event is
\* answered 200 {received:true} all the same, never 500.
C3_TelegramSwallowed ==
    (IsWebhook /\ audit.verified /\ up.telegram = "reject") => res = Received

\* ---- checkout

IsBooking ==
    handler \in { "handler_v10", "handler_v11", "handler_premium",
                  "handler_profiles_v2", "handler_profiles_v3" }

IsProfiled == handler \in {"handler_profiles_v2", "handler_profiles_v3"}

IsAdditive == handler = "handler_premium" \/ IsProfiled

\* The profile the request selects.
SelectedProfile ==
    CASE handler = "handler_profiles_v2" ->
             getPricingProfile_V2(req.industry, req.serviceType)
      [] handler = "handler_profiles_v3" ->
             getPricingProfile_V3(req.industry, req.serviceType)
      [] OTHER -> BASE_PRICING_V3

\* The miles priced, in tenths: doubled for return_same_day in the profile
\* variants.
PricedDm ==
    IF IsProfiled /\ req.serviceType = "return_same_day"
    THEN 2 * req.miles.dm ELSE req.miles.dm

\* The manual-quote ceiling that applies, in miles.
CeilingMiles ==
    IF handler = "handler_premium" THEN 180 ELSE SelectedProfile.manualQuoteMiles

\* A complete request with a positive numeric mileage.
WellFormedBooking ==
    req.missing = {} /\ req.miles.kind = "number" /\ req.miles.dm > 0

SessionCalled ==
    \E i \in 1..Len(trace) : trace[i] = "stripe.checkout.sessions.create"

\* C4: in the premium and profile variants a priced distance at or beyond
\* the profile's manual-quote ceiling is answered 400 'Manual quote
\* required' without any Stripe session; sessions are created only strictly
\* below the ceiling.
C4_ManualQuoteCeiling ==
    IsAdditive =>
        /\ (WellFormedBooking /\ PricedDm >= CeilingMiles * 10)
              => /\ res = Response(400, "Manual quote required")
                 /\ ~SessionCalled
                 /\ ~audit.sessionCreated
        /\ SessionCalled => (WellFormedBooking /\ PricedDm < CeilingMiles * 10)

C4_Witness ==
    /\ handler = "handler_profiles_v3"
    /\ WellFormedBooking
    /\ req.serviceType = "return_same_day"
    /\ PricedDm = CeilingMiles * 10
    /\ res = Response(400, "Manual quote required")

\* The variants that price by distance.
PricesByDistance == IsBooking \/ handler = "handler_routes"

\* The minimum (base) fee of the variant that served the request.
MinimumFee ==
    CASE handler \in {"handler_v10", "handler_v11", "handler_routes"} -> 90
      [] handler = "handler_premium" -> 120
      [] OTHER -> SelectedProfile.baseUpTo20

\* C5 as stated: the final price of every distance-pricing variant is a
\* multiple of 5 (its granularity being 5 or 10) and not below the minimum fee.
C5_AsStated ==
    (PricesByDistance /\ audit.priced) =>
        /\ audit.calculatedPrice % 5 = 0
        /\ audit.calculatedPrice >= MinimumFee

\* The rounding granularity of the variant: 5 or 10 pounds in the
\* base-plus-uplift variants, one pound in the Google-Routes variant.
Granularity ==
    CASE handler \in {"handler_v10", "handler_v11", "handler_premium"} -> 5
      [] handler = "handler_routes" -> 1
      [] OTHER -> SelectedProfile.rounding

\* C5: the final price is a multiple of the variant's granularity, which is
\* 5 or 10 except in the Google-Routes variant where it is 1, and is never
\* below the variant's minimum fee.
C5_GranularityAndMinimum ==
    (PricesByDistance /\ audit.priced) =>
        /\ Granularity \in {1, 5, 10}
        /\ (Granularity = 1) = (handler = "handler_routes")
        /\ audit.calculatedPrice % Granularity = 0
        /\ audit.calculatedPrice >= MinimumFee

C5_Witness ==
    /\ handler = "handler_profiles_v2"
    /\ audit.priced
    /\ Granularity = 10
    /\ audit.pricing_total_before_rounding % 10000 # 0
    /\ audit.calculatedPrice > MinimumFee

\* The base fee and the per-mile rate (pence) of the variant.
BaseFee == MinimumFee

PerMileRate ==
    CASE handler \in {"handler_v10", "handler_v11"} -> 180
      [] handler = "handler_premium" -> 350
      [] OTHER -> SelectedProfile.perMileOver20

\* 20 miles in meters is 32186.88
Within20Miles(meters) == meters * 100 <= 3218688

\* C6: before uplifts and rounding the distance price is the base fee up to
\* 20 miles and the base fee plus rate x (miles - 20) beyond, on doubled
\* miles for return_same_day.
C6_DistancePrice ==
    /\ (IsBooking /\ audit.priced) =>
          /\ audit.effectiveMiles = PricedDm
          /\ audit.pricing_base = BaseFee
          /\ audit.pricing_base * 1000 + audit.pricing_distance =
                IF PricedDm <= 200 THEN BaseFee * 1000
                ELSE BaseFee * 1000 + PerMileRate * (PricedDm - 200)
    /\ (handler = "handler_routes" /\ audit.priced) =>
          \* 1.80 a mile is 25/22352 of a pound a meter
          audit.base = IF Within20Miles(audit.meters) THEN 90 * PoundParts
                       ELSE 90 * PoundParts + 25 * audit.meters - (500 * 1609344) \div 1000

C6_Witness ==
    /\ handler = "handler_profiles_v3"
    /\ audit.priced
    /\ req.serviceType = "return_same_day"
    /\ req.miles.dm <= 200
    /\ PricedDm > 200
    /\ audit.pricing_distance > 0

\* The notice given, in minutes.
Notice == getTimeMinutes(req.when) - env.now

IfThen(cond, amount) == IF cond THEN amount ELSE 0

\* The uplift amounts of the variant.
Adds ==
    IF handler = "handler_premium"
    THEN [after17 |-> 35, weekend |-> 60, urgency |-> 40, immediate |-> 0]
    ELSE [after17 |-> SelectedProfile.after17Add,
          weekend |-> SelectedProfile.weekendAdd,
          urgency |-> SelectedProfile.urgencyAdd,
          immediate |-> IF handler = "handler_profiles_v3"
                        THEN SelectedProfile.immediateAdd ELSE 0]

\* C7: in the additive variants the pre-rounding total is base + distance
\* charge + the uplifts whose condition holds (after-hours: hour >= 17 UTC;
\* weekend: Saturday or Sunday; urgency: 0 <= notice < 180 minutes;
\* immediate: the flag), each adding its amount independently, and the
\* charge is that total rounded to the profile's granularity.
C7_AdditiveUplifts ==
    (IsAdditive /\ audit.priced) =>
        /\ audit.pricing_after1700 = IfThen(req.when.hour >= 17, Adds.after17)
        /\ audit.pricing_weekend = IfThen(getUTCDay(req.when) \in {0, 6}, Adds.weekend)
        /\ audit.pricing_urgency = IfThen(Notice >= 0 /\ Notice < 180, Adds.urgency)
        /\ audit.pricing_immediate = IfThen(req.immediateDelivery, Adds.immediate)
        /\ audit.pricing_total_before_rounding =
              audit.pricing_base * 1000 + audit.pricing_distance
              + 1000 * ( audit.pricing_uplift_distance + audit.pricing_after1700
                         + audit.pricing_weekend + audit.pricing_urgency
                         + audit.pricing_immediate )
        /\ audit.calculatedPrice % Granularity = 0
        /\ 2 * (audit.calculatedPrice * 1000 - audit.pricing_total_before_rounding)
              <= Granularity * 1000
        /\ 2 * (audit.pricing_total_before_rounding - audit.calculatedPrice * 1000)
              < Granularity * 1000

C7_Witness ==
    /\ handler = "handler_profiles_v3"
    /\ audit.priced
    /\ audit.pricing_after1700 > 0
    /\ audit.pricing_weekend > 0
    /\ audit.pricing_immediate > 0
    /\ audit.pricing_urgency = 0
    /\ audit.pricing_total_before_rounding % (Granularity * 1000) # 0

C7_WitnessUrgent ==
    /\ handler = "handler_premium"
    /\ audit.priced
    /\ audit.pricing_urgency > 0
    /\ audit.pricing_after1700 > 0
    /\ Notice = 179

\* The factors the pickup time calls for, as fractions.
TimeFactor ==
    IF req.when.hour \in 0..8 THEN <<3, 2>>
    ELSE IF req.when.hour \in 18..23 THEN <<13, 10>>
    ELSE <<1, 1>>

DayFactor == IF getUTCDay(req.when) \in {0, 6} THEN <<5, 4>> ELSE <<1, 1>>

\* C8: the Google-Routes total is the distance price times one time factor
\* (1.5 for hours 00-08, 1.3 for 18-23, else 1.0) times 1.25 on Saturday or
\* Sunday, rounded up to the next whole pound.
C8_RoutesTotal ==
    (handler = "handler_routes" /\ audit.priced) =>
        LET num == audit.base * TimeFactor[1] * DayFactor[1]
            den == PoundParts * TimeFactor[2] * DayFactor[2]
        IN /\ audit.surchargeFactor = TimeFactor
           /\ audit.weekendFactor = DayFactor
           /\ audit.calculatedPrice * den >= num
           /\ (audit.calculatedPrice - 1) * den < num

C8_Witness ==
    /\ handler = "handler_routes"
    /\ audit.priced
    /\ req.when.hour = 8
    /\ getUTCDay(req.when) = 6
    /\ ~Within20Miles(audit.meters)
    /\ (audit.base * 15) % (PoundParts * 8) # 0

\* The fields each booking variant names as required.
RequiredFields ==
    CASE handler = "handler_flat" -> {"pickup", "dropoff", "email"}
      [] handler = "handler_v10" ->
             {"pickup", "dropoff", "email", "whenDate", "whenTime", "miles"}
      [] OTHER -> RequiredV2

\* C9: a checkout request lacking a required field, or with a mileage that
\* is not a number greater than zero, or with a date/time that does not
\* parse, is answered 400 and no Stripe session is created.
C9_InvalidRejected ==
    /\ (IsBooking /\ ( \/ req.missing \cap RequiredFields # {}
                       \/ req.miles.kind # "number"
                       \/ ~req.when.valid ))
          => (res.status = 400 /\ ~SessionCalled)
    /\ (handler = "handler_routes" /\ (req.missing # {} \/ ~req.when.valid))
          => (res.status = 400 /\ ~SessionCalled)

\* An upstream service failed during the lookup.
UpstreamFailed ==
    /\ trace # <<>>
    /\ IF handler = "handler_distance"
       THEN \/ up.geoFrom \in {"garbage", "reject"}
            \/ up.geoTo \in {"garbage", "reject"}
            \/ up.osrm \in {"noroute", "garbage", "reject"}
       ELSE \/ ~up.reached
            \/ ~up.ok
            \/ up.body.kind = "garbage"

\* C10: when an upstream service fails the handler answers 500 or 502 with a
\* generic message that carries no upstream error detail.
C10_UpstreamFailureGeneric ==
    (IsLookup /\ UpstreamFailed) =>
        (res.status \in {500, 502} /\ res.detail = "none")

\* C11: the customer-friendly availability handler answers every POST with
\* 200, and whenever it reports available:false the message is exactly the
\* uniform text.
C11_UniformMessage ==
    handler = "handler_availability_friendly" =>
        /\ res.status = 200
        /\ res.body = "available:false" => res.detail = UniformMessage

\* How many times a run made the outbound call `call`.
Attempts(call) == Cardinality({i \in DOMAIN trace : trace[i] = call})

\* C12: handling one webhook request attempts each downstream notification
\* (Telegram, Make) at most once; none is sent twice or retried after a
\* failure.
C12_AtMostOnce ==
    IsWebhook => (Attempts("telegram") <= 1 /\ Attempts("make") <= 1)

C12_Witness ==
    /\ handler = "handler_webhook_v2"
    /\ trace = <<"telegram", "make">>
    /\ up.telegram = "reject"
    /\ up.make = "reject"
    /\ res = Received

\* A webhook handler has built and sent the booking message for a session
\* created by a checkout handler.
BookingNotified == IsWebhook /\ audit.notified

\* C13: the booking details submitted at checkout (pickup, dropoff, miles,
\* date and time) reach the checkout.session.completed message of every
\* webhook handler as submitted, never as a placeholder.
C13_DetailsArrive ==
    BookingNotified =>
        /\ \A d \in BookingDetails : audit.lines[d] # "placeholder"
        /\ audit.lines["pickup"] = "submitted"
        /\ audit.lines["dropoff"] = "submitted"

\* The longest distance of the model was asked for: beyond every
\* manual-quote ceiling of the profiles (at most 260 miles one way).
LongestDistance ==
    \/ IsBooking /\ req.missing = {} /\ req.miles.kind = "number"
                 /\ req.miles.dm = MaxMiles * 10
    \/ handler = "handler_routes" /\ audit.priced /\ audit.meters = MaxKm * 1000

\* C14: every checkout variant that prices by distance has a manual-quote
\* cutoff, a mileage beyond which it creates no checkout session.
C14_CutoffEverywhere ==
    (PricesByDistance /\ LongestDistance) => ~SessionCalled

\* ---- purity

\* The handler that served the request, run again on a request, an
\* environment and upstream answers.
Rerun(h, e, r, u) ==
    CASE h = "handler_flat" -> handler_flat(e, r, u)
      [] h = "handler_v10" -> handler_v10(e, r, u)
      [] h = "handler_v11" -> handler_v11(e, r, u)
      [] h = "handler_premium" -> handler_premium(e, r, u)
      [] h = "handler_profiles_v2" -> handler_profiles_v2(e, r, u)
      [] h = "handler_profiles_v3" -> handler_profiles_v3(e, r, u)

\* The same request, with the same upstream answer, handled when the
\* handler's clock reads now.
AnsweredAt(now) ==
    Rerun(handler, [env EXCEPT !.now = now], req,
          [stripe |-> IF up.stripe = "throw" THEN "throw" ELSE "ok"])

ReadsClock == IsCheckout /\ handler # "handler_routes"

\* C15: a checkout request handled again with the same body, the same
\* environment variables and the same upstream answers gets the same
\* response and the same calculated price, whatever the moment it is handled.
C15_SameRequestSameResponse ==
    ReadsClock =>
        \A now \in Nows :
            /\ AnsweredAt(now).res = res
            /\ AnsweredAt(now).audit.priced = audit.priced
            /\ audit.priced =>
                 AnsweredAt(now).audit.calculatedPrice = audit.calculatedPrice

\* ---- distance uplift bands

\* Priced by PR-PREMIUM-V1.0 or by the default profile of PR-PROFILES-V2.0.
DefaultBands ==
    \/ handler = "handler_premium"
    \/ handler = "handler_profiles_v2" /\ SelectedProfile = BASE_PRICING_V2

\* C16: in PR-PREMIUM-V1.0 and under the default profile of V2.0 every
\* priced mileage m with 80 <= m < 180, whole or fractional, receives a
\* distance uplift: 50 pounds from 80 up to 120 miles, 90 pounds from 120 up
\* to 180 miles; none is priced with zero uplift.
C16_BandsCoverRange ==
    (DefaultBands /\ audit.priced /\ PricedDm >= 800 /\ PricedDm < 1800) =>
        /\ audit.pricing_uplift_distance # 0
        /\ PricedDm < 1200 => audit.pricing_uplift_distance = 50
        /\ PricedDm >= 1200 => audit.pricing_uplift_distance = 90

\* ---- Aerospace worked example

\* No time-based uplift applies: a weekday job before 17:00, not starting
\* within three hours of the request, not flagged immediate.
NoTimeUplift ==
    /\ req.when.valid
    /\ getUTCDay(req.when) \in 1..5
    /\ req.when.hour < 17
    /\ \/ getTimeMinutes(req.when) < env.now
       \/ getTimeMinutes(req.when) >= env.now + 180
    /\ ~req.immediateDelivery

Aerospace190 ==
    /\ IsProfiled
    /\ req.missing = {}
    /\ req.industry = "Aerospace"
    /\ req.miles.kind = "number" /\ req.miles.dm = 1900
    /\ NoTimeUplift

\* C17: with no time-based uplift, both profile versions price a 190-mile
\* Aerospace job at 520 pounds one-way and at 650 pounds return-same-day
\* (380 effective miles).
C17_Aerospace190 ==
    Aerospace190 =>
        /\ audit.priced
        /\ req.serviceType = "oneway" =>
             (audit.effectiveMiles = 1900 /\ audit.calculatedPrice = 520)
        /\ req.serviceType = "return_same_day" =>
             (audit.effectiveMiles = 3800 /\ audit.calculatedPrice = 650)

C17_Witness ==
    /\ Aerospace190
    /\ handler = "handler_profiles_v3"
    /\ req.serviceType = "return_same_day"
    /\ audit.sessionCreated
    /\ audit.calculatedPrice = 650

\* ---- PR-V1.1 urgent uplift

\* The job's UTC day counted from the UTC day of the request.
DaysAhead == req.when.day - (env.now \div 1440)

\* C18: in PR-V1.1 the 25 pound urgent uplift is applied exactly when the
\* job date is the UTC day of the request or the next UTC day, and for no
\* other job date.
C18_UrgentSameOrNextDay ==
    (handler = "handler_v11" /\ audit.priced) =>
        /\ DaysAhead \in {0, 1} => audit.pricing_urgency = 25
        /\ DaysAhead \notin {0, 1} => audit.pricing_urgency = 0

\* ---- Google-Routes modes

\* C19: the Google-Routes handler calls Stripe only when the mode sent is
\* 'checkout'; with mode 'quote', or with no mode, it answers the quote and
\* makes no Stripe call.
C19_SessionOnlyOnCheckout ==
    handler = "handler_routes" =>
        /\ SessionCalled => req.mode = "checkout"
        /\ (req.mode \in {"quote", "absent"} /\ audit.priced) =>
              (res = Response(200, "quote") /\ ~SessionCalled)

\* ---- notification only after verification

\* The request made the handler call Telegram or Make.
NotificationAttempted == Attempts("telegram") > 0 \/ Attempts("make") > 0

\* C20: a webhook request leads to a Telegram or Make call only if its
\* signature was first verified under a configured secret.
C20_NotifyOnlyVerified ==
    (IsWebhook /\ NotificationAttempted) => (audit.verified /\ ValidlySigned)

\* ---- metadata normalisation

\* The handlers that settle the metadata of a completed session.
SettlesMetadata ==
    handler \in { "handler_part005_v1", "handler_part005_v2",
                  "handler_webhook_v1", "handler_webhook_v2" }

CompletedSession ==
    SettlesMetadata /\ audit.verified /\ req.type = "checkout.session.completed"

\* C21: on checkout.session.completed the session's own metadata is used
\* whenever it is not empty; only when it is empty and the session has a
\* payment_intent is the PaymentIntent retrieved and its metadata used; when
\* that retrieval fails, handling goes on with empty metadata, the
\* notification is still attempted and the answer is still 200.
C21_MetadataFallback ==
    CompletedSession =>
        /\ req.metadata # "empty" =>
              (audit.md = req.metadata /\ Attempts("stripe.paymentIntents.retrieve") = 0)
        /\ (req.metadata = "empty" /\ ~req.payment_intent) =>
              (audit.md = "empty" /\ Attempts("stripe.paymentIntents.retrieve") = 0)
        /\ (req.metadata = "empty" /\ req.payment_intent) =>
              /\ trace[1] = "stripe.paymentIntents.retrieve"
              /\ Attempts("stripe.paymentIntents.retrieve") = 1
              /\ up.retrieve # "reject" => audit.md = up.retrieve
              /\ up.retrieve = "reject" =>
                    /\ audit.md = "empty"
                    /\ env.telegram => Attempts("telegram") = 1
                    /\ res = Received

C21_Witness ==
    /\ CompletedSession
    /\ handler = "handler_webhook_v2"
    /\ req.metadata = "empty" /\ req.payment_intent
    /\ up.retrieve = "reject"
    /\ trace = <<"stripe.paymentIntents.retrieve", "telegram", "make">>
    /\ audit.md = "empty"
    /\ res = Received

\* ---- order of the notifications

\* The handlers that notify Telegram and then post the job to Make.
NotifiesBoth == handler \in {"handler_part005_v2", "handler_webhook_v2"}

\* Make is configured: part_005 holds the URL as a constant of the file,
\* webhook.js reads it from the environment.
MakeConfigured == handler = "handler_part005_v2" \/ env.MAKE_CREATE_JOB_WEBHOOK_URL

CompletedBoth ==
    NotifiesBoth /\ audit.verified /\ req.type = "checkout.session.completed"

\* C22: on checkout.session.completed the Telegram notification is
\* attempted before the Make post, the Make post is attempted whether the
\* Telegram attempt succeeded or failed, and the 200 is answered only once
\* both attempts have been answered.
C22_TelegramThenMake ==
    CompletedBoth =>
        /\ \A i, j \in DOMAIN trace :
              (trace[i] = "telegram" /\ trace[j] = "make") => i < j
        /\ MakeConfigured => Attempts("make") = 1
        /\ res.status = 200 =>
              /\ env.telegram => up.telegram \in {"ok", "reject"}
              /\ MakeConfigured => up.make \in {"ok", "reject"}

C22_Witness ==
    /\ CompletedBoth
    /\ handler = "handler_part005_v2"
    /\ up.telegram = "reject"
    /\ up.make = "ok"
    /\ trace = <<"telegram", "make">>
    /\ res = Received

\* ---- unhandled event types

\* The event types the handler that served the request has a case for.
HandledTypes ==
    CASE handler \in {"handler_part005_v1", "handler_webhook_v1", "handler_webhook_v2"} ->
             { "checkout.session.completed", "payment_intent.succeeded",
               "payment_intent.payment_failed", "charge.refunded" }
      [] handler \in {"POST_route_v1", "POST_part007"} ->
             { "checkout.session.completed", "payment_intent.succeeded" }
      [] handler \in {"POST_route_v2", "handler_part005_v2"} ->
             { "checkout.session.completed" }
      [] OTHER -> {}

UnhandledVerified == IsWebhook /\ audit.verified /\ req.type \notin HandledTypes

\* C23: a verified event of a type the handler has no case for is answered
\* 200 {received:true} and causes no outbound call: no Telegram message, no
\* Make post, no Stripe retrieval.
C23_UnhandledAcknowledged ==
    UnhandledVerified => (res = Received /\ trace = <<>>)

C23_Witness ==
    /\ UnhandledVerified
    /\ handler = "handler_webhook_v2"
    /\ req.type = "customer.created"
    /\ req.metadata = "empty" /\ req.payment_intent
    /\ env.telegram /\ env.MAKE_CREATE_JOB_WEBHOOK_URL
    /\ res = Received
    /\ trace = <<>>

\* ---- price against distance

\* The run of the same handler on the same request at the same moment, the
\* mileage alone replaced.
PricedFor(dm) ==
    Rerun(handler, env, [req EXCEPT !.miles = [kind |-> "number", dm |-> dm]],
          [stripe |-> "ok"])

\* C24: industry, service type, job date and time and request time fixed,
\* the calculated price never decreases when the mileage increases, over
\* the mileages below the manual-quote ceiling.
C24_PriceMonotone ==
    (IsAdditive /\ audit.priced) =>
        \A dm \in MilesDm :
            dm < req.miles.dm =>
                /\ PricedFor(dm).audit.priced
                /\ PricedFor(dm).audit.calculatedPrice <= audit.calculatedPrice

\* ---- amount charged against price reported

SessionMade == IsCheckout /\ audit.priced /\ audit.sessionCreated

\* C25 as stated: whenever a checkout session is created, the unit_amount
\* is a positive whole number of pence, 100 times the calculatedPrice of
\* the response, which is also the calculatedPrice of the metadata.
C25_AsStated ==
    SessionMade =>
        /\ audit.unit_amount > 0
        /\ audit.response_calculatedPrice.present
        /\ audit.unit_amount = 100 * audit.response_calculatedPrice.pounds
        /\ audit.metadata_calculatedPrice = audit.response_calculatedPrice

\* C25: whenever a checkout session is created, the unit_amount is a
\* positive whole number of pence, 100 times the price the handler
\* calculated; the five variants that price a booking by its miles field
\* return that price as calculatedPrice and record it in the metadata,
\* and a variant that returns or records a calculatedPrice returns or
\* records that price.
C25_AmountMatchesPrice ==
    SessionMade =>
        /\ audit.unit_amount > 0
        /\ audit.unit_amount = 100 * audit.calculatedPrice
        /\ IsBooking =>
              /\ audit.response_calculatedPrice.present
              /\ audit.metadata_calculatedPrice.present
        /\ audit.response_calculatedPrice.present =>
              audit.unit_amount = 100 * audit.response_calculatedPrice.pounds
        /\ audit.metadata_calculatedPrice.present =>
              audit.metadata_calculatedPrice = audit.response_calculatedPrice

C25_Witness ==
    /\ SessionMade
    /\ handler = "handler_v11"
    /\ audit.calculatedPrice = 115
    /\ audit.unit_amount = 11500
    /\ audit.response_calculatedPrice = [present |-> TRUE, pounds |-> 115]
    /\ audit.metadata_calculatedPrice = [present |-> TRUE, pounds |-> 115]

\* ---- one schedule window

\* A window was computed from inputs every window computation accepts: a
\* date and time that parse and a positive numeric mileage below the
\* manual-quote ceiling; for an availability handler, the window it sent
\* to Make.
BookableInputs ==
    /\ handler \in WindowComputations
    /\ audit # NoWindow
    /\ handler \notin {"scheduleWindow_checkout", "computeScheduleWindowFallback"}
          => (trace = <<"make">> /\ req.missing = {})
    /\ req.when.valid
    /\ req.miles.kind = "number"
    /\ ~manualQuote(req.miles.dm, BASE_PRICING_V3.manualQuoteMiles)

\* C26: for the same date, time, miles and service type, the window the
\* availability check sends, the window recorded in the metadata at
\* checkout and the fallback window of the webhook are one window: it ends
\* at the requested time and starts the drive time at 30 mph plus 20
\* minutes earlier.
C26_OneWindow ==
    BookableInputs =>
        /\ audit.scheduleEnd.seconds = getTimeMinutes(req.when) * 60
        /\ audit.scheduleStart.seconds =
              audit.scheduleEnd.seconds - (req.miles.dm * 12 + 20 * 60)
        /\ audit = computeWindow(req.when, req.miles)
        /\ audit = scheduleWindow_checkout(req.when, req.miles, req.serviceType)
        /\ audit = computeScheduleWindowFallback(req.when, req.miles)
        /\ \A offset \in UtcOffsets :
              audit = computeScheduleWindow(req.when, req.miles, offset)

====
